---- MODULE Spec2Model ----
(***************************************************************************)
(* The proxy validation engine of checker.py: check_proxy (format check,   *)
(* port prefilter, ordered endpoint checks with fail-fast) driven by       *)
(* check_all (batches, a per-batch semaphore, an outer deadline per        *)
(* candidate, progress callbacks, early stop, final sort).                 *)
(*                                                                         *)
(* Strings that the code parses are sequences of one-character strings.    *)
(* Times are integers in microseconds; response_time, which the code       *)
(* rounds to 3 decimals, is an integer number of milliseconds.             *)
(***************************************************************************)
EXTENDS Integers, Sequences, FiniteSets, TLC

(* ---------------- program constants (checker.py:28-32) ----------------- *)
\* scaled down from 100: the semaphore must bind inside a small batch
MAX_CONCURRENT == 2
\* scaled down from 200: a run must span more than one batch
BATCH_SIZE == 3
TIMEOUT_SECONDS == 6
PORT_CHECK_TIMEOUT == 2
\* httpx.Timeout(timeout, connect=3.0, read=timeout)
HTTPX_CONNECT_TIMEOUT == 3
\* asyncio.wait_for(check_proxy(...), timeout=TIMEOUT_SECONDS * 4)
OUTER_FACTOR == 4

(* -------------- program constants (proxy_analytics.py) ----------------- *)
\* get_proxy_stats(..., min_checks=3, ..., limit=100)
DEFAULT_MIN_CHECKS == 3
DEFAULT_LIMIT == 100
\* cleanup(days=30), scaled down: a run must outlast the retention time
DEFAULT_DAYS == 1
\* cleanup keeps the statistics of a proxy that has this many checks
FEW_CHECKS == 5

(* ---------------- program constants (proxy_cache.py) ------------------- *)
\* ProxyCache(cache_file="proxy_cache.json", max_age_hours=12)
MAX_AGE_HOURS == 12
\* self.save_interval = 60, in seconds
SAVE_INTERVAL == 60

(* ---------------------------- model bounds ----------------------------- *)
\* longest candidate list of the batch specification
MaxProxies == 4
\* the early-stop target of the runs that have one
MaxTarget == 1
\* longest candidate list of the silent-peers specification
MaxHang == 1
\* longest candidate list of the sorting specification
MaxSort == 2
\* longest candidate list of the siblings specification
MaxSiblings == 4
\* a quick I/O step, in microseconds (not a whole number of milliseconds)
QuickUs == 1400
\* most rows of proxy_checks in the analytics specifications
MaxChecks == 4
\* last tick of the clock in the cleanup specification
MaxNow == 5
\* ticks of the clock in one calendar day
TicksPerDay == 2
\* reliability_score is kept in units of 1 / ScoreScale
ScoreScale == 1000000

Sec(n) == n * 1000 * 1000
OuterDeadline == Sec(TIMEOUT_SECONDS * OUTER_FACTOR)

VALIDATION_URLS == <<"http://icanhazip.com", "http://api.ipify.org", "http://ip.me">>
HTTPS_VALIDATION_URL == "https://api.ipify.org"
test_targets == <<"icanhazip.com:80", "api.ipify.org:80", "ip.me:80">>
\* the port of every destination of test_targets
DEST_PORT == 80

Protocols == {"http", "https", "socks4", "socks5"}

(* ------------------------- strings as sequences ------------------------ *)
Digits == {"0", "1", "2", "3", "4", "5", "6", "7", "8", "9"}

\* str.split(sep): the fields between the separators, empty fields kept
RECURSIVE SplitFrom(_, _, _, _)
SplitFrom(s, sep, i, cur) ==
    IF i > Len(s) THEN <<cur>>
    ELSE IF s[i] = sep THEN <<cur>> \o SplitFrom(s, sep, i + 1, <<>>)
    ELSE SplitFrom(s, sep, i + 1, Append(cur, s[i]))

Split(s, sep) == SplitFrom(s, sep, 1, <<>>)

\* int(port_str) raises ValueError unless the text is an optional sign and
\* one or more digits (surrounding blanks and underscores are not modelled)
IsIntLiteral(s) ==
    LET body == IF Len(s) > 0 /\ s[1] \in {"+", "-"} THEN Tail(s) ELSE s
    IN  Len(body) > 0 /\ \A k \in 1..Len(body) : body[k] \in Digits

\* length of the run of digits of s that starts at position p
RECURSIVE DigitRun(_, _)
DigitRun(s, p) ==
    IF p > Len(s) \/ s[p] \notin Digits THEN 0 ELSE 1 + DigitRun(s, p + 1)

\* IP_PATTERN = \d{1,3}(?:\.\d{1,3}){3} matched at position p with g groups
\* still to come after this one: the end position of the match, 0 if none.
\* A group that is followed by "\." must take its whole run of digits; the
\* last group is greedy and takes up to 3.
RECURSIVE IpMatchAt(_, _, _)
IpMatchAt(s, p, g) ==
    LET run == DigitRun(s, p)
    IN  IF run = 0 THEN 0
        ELSE IF g = 0 THEN p + (IF run > 3 THEN 3 ELSE run) - 1
        ELSE IF run > 3 \/ p + run > Len(s) \/ s[p + run] # "." THEN 0
        ELSE IpMatchAt(s, p + run + 1, g - 1)

\* IP_PATTERN.search(body): the leftmost match, or the empty string
RECURSIVE IpSearchFrom(_, _)
IpSearchFrom(s, p) ==
    IF p > Len(s) THEN <<>>
    ELSE LET e == IpMatchAt(s, p, 3)
         IN  IF e > 0 THEN SubSeq(s, p, e) ELSE IpSearchFrom(s, p + 1)

IpSearch(body) == IpSearchFrom(body, 1)

(* ------------------------------ numbers -------------------------------- *)
Max(a, b) == IF a >= b THEN a ELSE b

\* round(total_time / max(passed, 1), 3): the quotient of microseconds
\* rounded to the nearest millisecond, a tie going to the even one
Round3(total_us, n) ==
    LET den == n * 1000
        q   == total_us \div den
        r2  == 2 * (total_us % den)
    IN  IF r2 < den THEN q
        ELSE IF r2 > den THEN q + 1
        ELSE IF q % 2 = 0 THEN q ELSE q + 1

(* ------------------------------ candidates ----------------------------- *)
\* "h:8", a well-formed candidate
Good == <<"h", ":", "8">>
\* "h", the port is missing
NoPort == <<"h">>
\* "h:x", the port is no integer
BadPort == <<"h", ":", "x">>
\* "h:8:8", three fields
ThreeFields == <<"h", ":", "8", ":", "8">>
\* "h:", an empty port
EmptyPort == <<"h", ":">>
\* a list item that is no str (None): proxy_str.split raises AttributeError
NotAStr == <<"None">>

IsStr(p) == p # NotAStr

(* ----------------------------- ProxyResult ----------------------------- *)
\* the dataclass with its defaults (checker.py:35-45)
ProxyResult(p, pr) ==
    [proxy |-> p, proto |-> pr, alive |-> FALSE, response_time |-> 0,
     ip_returned |-> <<>>, checks_passed |-> 0, checks_total |-> 0, error |-> ""]

\* the record check_all reports for a task that raised (checker.py:311)
Dummy(pr) == ProxyResult(<<"?">>, pr)

(* --------------------------- protocol checkers ------------------------- *)
\* what the transport does during one HTTP(S) check
HttpError == [kind |-> "error", status |-> 0, body |-> <<>>]
HttpResp(st, b) == [kind |-> "resp", status |-> st, body |-> b]

\* _check_http_proxy: (success, response_time, ip_returned)
CheckHttp(ev, dur) ==
    IF ev.kind = "error" THEN [ok |-> FALSE, elapsed |-> 0, ip |-> <<>>]
    ELSE IF ev.status # 200 THEN [ok |-> FALSE, elapsed |-> dur, ip |-> <<>>]
    ELSE LET ip == IpSearch(ev.body)
         IN  [ok |-> ip # <<>>, elapsed |-> dur, ip |-> ip]

\* what the peer does during one SOCKS check: the connect fails; the name
\* of the destination does not resolve; a read finds no data within the
\* timeout (for SOCKS5 after the peer sent greet); the peer's bytes arrive
\* (greet is what it sends after the SOCKS5 greeting, reply what it sends
\* after the request; an empty one is a closed connection); or something
\* other than TimeoutError and OSError is raised in the handshake
SocksConnFail == [kind |-> "connfail", greet |-> <<>>, reply |-> <<>>]
SocksLookupFail(g) == [kind |-> "lookupfail", greet |-> g, reply |-> <<>>]
SocksTimeout == [kind |-> "timeout", greet |-> <<>>, reply |-> <<>>]
SocksTimeoutAfter(g) == [kind |-> "timeout", greet |-> g, reply |-> <<>>]
SocksReply(g, r) == [kind |-> "reply", greet |-> g, reply |-> r]
SocksRaise == [kind |-> "raise", greet |-> <<>>, reply |-> <<>>]

\* reader.read(n): at most n of the bytes that arrived
Take(s, n) == SubSeq(s, 1, IF Len(s) < n THEN Len(s) ELSE n)
\* the bytes that a read(n) left in the stream
Drop(s, n) == SubSeq(s, n + 1, Len(s))

\* struct.pack(">H", n): two bytes, the high one first
PackH(n) == <<(n \div 256) % 256, n % 256>>

\* socket.inet_aton(socket.gethostbyname(dest_host)): the four bytes of the
\* address of a destination, one address per destination of test_targets
Resolve(dest) ==
    <<104, 16, 0, CHOOSE k \in 1..Len(test_targets) : test_targets[k] = dest>>

\* struct.pack(">BBH", 0x04, 0x01, dest_port) + dest_ip + b"\x00"
Socks4Request(dest_ip, dest_port) ==
    <<4, 1>> \o PackH(dest_port) \o dest_ip \o <<0>>

\* mutant: any reply of two bytes is taken as a grant
Socks4GrantedAnyReply(resp) == Len(resp) >= 2

\* len(resp) >= 2 and resp[1] == 0x5A
Socks4Granted(resp) == Len(resp) >= 2 /\ resp[2] = 90

\* _socks4_connect: what was written, what was read, and the verdict
Socks4Connect(ev, dest_ip, dest_port) ==
    IF ev.kind \in {"connfail", "lookupfail", "raise"}
    THEN [ok |-> FALSE, sent |-> <<>>, got |-> <<>>]
    ELSE LET req == Socks4Request(dest_ip, dest_port)
         IN  IF ev.kind = "timeout"
             THEN [ok |-> FALSE, sent |-> <<req>>, got |-> <<>>]
             ELSE LET resp == Take(ev.reply, 8)
                  IN  [ok |-> Socks4Granted(resp), sent |-> <<req>>,
                       got |-> <<resp>>]

\* b"\x05\x01\x00": version 5, one method, no authentication
Socks5Greeting == <<5, 1, 0>>

\* struct.pack(">BBB", 5, 1, 0) + b"\x01" + dest_ip + struct.pack(">H", port)
Socks5Request(dest_ip, dest_port) ==
    <<5, 1, 0, 1>> \o dest_ip \o PackH(dest_port)

\* mutant: the method byte of the greeting's reply is not looked at
Socks5AcceptedAnyMethod(resp) == Len(resp) >= 2 /\ resp[1] = 5

\* not (len(resp) < 2 or resp[0] != 0x05 or resp[1] != 0x00)
Socks5Accepted(resp) == Len(resp) >= 2 /\ resp[1] = 5 /\ resp[2] = 0

\* len(resp) >= 2 and resp[1] == 0x00
Socks5Granted(resp) == Len(resp) >= 2 /\ resp[2] = 0

\* _socks5_connect: what was written, what was read, and the verdict; the
\* bytes that read(2) left behind are the first that read(10) returns
Socks5Connect(ev, dest_ip, dest_port) ==
    IF ev.kind \in {"connfail", "raise"}
    THEN [ok |-> FALSE, sent |-> <<>>, got |-> <<>>]
    ELSE IF ev.kind = "timeout" /\ ev.greet = <<>>
    THEN [ok |-> FALSE, sent |-> <<Socks5Greeting>>, got |-> <<>>]
    ELSE LET resp1 == Take(ev.greet, 2)
             req   == Socks5Request(dest_ip, dest_port)
             resp2 == Take(Drop(ev.greet, 2) \o ev.reply, 10)
         IN  IF ~Socks5Accepted(resp1) \/ ev.kind = "lookupfail"
             THEN [ok |-> FALSE, sent |-> <<Socks5Greeting>>,
                   got |-> <<resp1>>]
             ELSE IF ev.kind = "timeout"
             THEN [ok |-> FALSE, sent |-> <<Socks5Greeting, req>>,
                   got |-> <<resp1>>]
             ELSE [ok |-> Socks5Granted(resp2),
                   sent |-> <<Socks5Greeting, req>>,
                   got |-> <<resp1, resp2>>]

\* the check of the endpoint ep as check_proxy sees it: HTTP(S) checks time
\* themselves, SOCKS checks are timed by check_proxy and return no
\* identifier; raised tells that the checker raised instead of returning
CheckOutcome(pr, ev, dur, ep) ==
    IF pr \in {"http", "https"}
    THEN LET h == CheckHttp(ev, dur)
         IN  [ok |-> h.ok, elapsed |-> h.elapsed, ip |-> h.ip,
              sent |-> <<>>, got |-> <<>>, raised |-> FALSE]
    ELSE LET c == IF pr = "socks4"
                  THEN Socks4Connect(ev, Resolve(ep), DEST_PORT)
                  ELSE Socks5Connect(ev, Resolve(ep), DEST_PORT)
         IN  [ok |-> c.ok, elapsed |-> dur, ip |-> <<>>,
              sent |-> c.sent, got |-> c.got, raised |-> ev.kind = "raise"]

\* mutant: the HTTPS endpoint is not appended
EndpointsWithoutHttps(pr) ==
    IF pr \in {"http", "https"} THEN VALIDATION_URLS
    ELSE IF pr \in {"socks4", "socks5"} THEN test_targets
    ELSE <<>>

\* mutant: the endpoints are walked from the last to the first
EndpointsReversed(pr) ==
    LET e == IF pr = "http" THEN VALIDATION_URLS
             ELSE IF pr = "https"
             THEN Append(VALIDATION_URLS, HTTPS_VALIDATION_URL)
             ELSE IF pr \in {"socks4", "socks5"} THEN test_targets
             ELSE <<>>
    IN  [k \in 1..Len(e) |-> e[Len(e) + 1 - k]]

\* the ordered endpoint list of a protocol (checker.py:207-235)
Endpoints(pr) ==
    IF pr = "http" THEN VALIDATION_URLS
    ELSE IF pr = "https" THEN Append(VALIDATION_URLS, HTTPS_VALIDATION_URL)
    ELSE IF pr \in {"socks4", "socks5"} THEN test_targets
    ELSE <<>>

(* ------------------------------ check_proxy ---------------------------- *)
\* mutant: the port is not parsed
FormatErrorFieldsOnly(proxy_str) ==
    IF Len(Split(proxy_str, ":")) # 2 THEN "invalid format" ELSE ""

\* the format checks of check_proxy: the error text, "" when well formed
FormatError(proxy_str) ==
    LET parts == Split(proxy_str, ":")
    IN  IF Len(parts) # 2 THEN "invalid format"
        ELSE IF ~IsIntLiteral(parts[2]) THEN "invalid port"
        ELSE ""

\* mutant: any passed check makes the candidate alive
FinalizeAnyPass(r, passed, total_time, first_ip) ==
    [r EXCEPT !.checks_passed = passed,
              !.alive = (passed > 0),
              !.response_time = Round3(total_time, Max(passed, 1)),
              !.ip_returned = first_ip]

\* checker.py:251-255
Finalize(r, passed, total_time, first_ip) ==
    [r EXCEPT !.checks_passed = passed,
              !.alive = (passed = r.checks_total /\ passed > 0),
              !.response_time = Round3(total_time, Max(passed, 1)),
              !.ip_returned = first_ip]

\* mutant: a failed check is counted as passed
AfterCheckCountsAll(t, o) ==
    [t EXCEPT !.passed = @ + 1,
              !.total_time = IF o.ok THEN @ + o.elapsed ELSE @,
              !.first_ip = IF o.ok /\ @ = <<>> /\ o.ip # <<>> THEN o.ip ELSE @]

\* mutant: the time of a failed check is added too
AfterCheckTimesFailures(t, o) ==
    [t EXCEPT !.passed = IF o.ok THEN @ + 1 ELSE @,
              !.total_time = @ + o.elapsed,
              !.first_ip = IF o.ok /\ @ = <<>> /\ o.ip # <<>> THEN o.ip ELSE @]

\* mutant: every identifier replaces the one recorded before
AfterCheckLastIp(t, o) ==
    IF o.ok
    THEN [t EXCEPT !.passed = @ + 1,
                   !.total_time = @ + o.elapsed,
                   !.first_ip = IF o.ip # <<>> THEN o.ip ELSE @]
    ELSE t

\* one turn of the endpoint loop after the check returned o: the locals
AfterCheck(t, o) ==
    IF o.ok
    THEN [t EXCEPT !.passed = @ + 1,
                   !.total_time = @ + o.elapsed,
                   !.first_ip = IF @ = <<>> /\ o.ip # <<>> THEN o.ip ELSE @]
    ELSE t

(* -------------------------------- state -------------------------------- *)
VARIABLES
    proxies,      \* check_all's argument: the candidate list
    proto,        \* check_all's argument: the protocol
    target,       \* check_all's argument: the early-stop target (0 = none)
    pcMain,       \* check_all: "start", "gather" (awaiting the batch), "done"
                  \* (returned), "raised" (left by an exception)
    batch_start,  \* the loop variable of check_all
    sem,          \* free slots of the semaphore of the current batch
    checked,      \* check_all's counter
    live,         \* check_all's list of alive results
    returned,     \* the list check_all returned
    progress,     \* the on_progress calls made so far, in order
    task,         \* per candidate position: where its _task stands, its locals
    result,       \* per candidate position: the ProxyResult of its task
    portLog,      \* per candidate position: the calls of _port_open, each
                  \* "pending", "open" or "closed"
    portConn,     \* per candidate position: what the TCP connect of each
                  \* finished call of _port_open did, and how long it took
    probes        \* per candidate position: the endpoint checks run, in order

\* the state of a ProxyAnalytics object (proxy_analytics.py) and of its
\* caller
VARIABLES
    proxy_checks,   \* the rows of table proxy_checks, in rowid order
    proxy_stats,    \* the rows of table proxy_stats, in rowid order
    now,            \* the time (UTC), in ticks since the object was made
    tz,             \* local time minus UTC, in ticks
    stats_returned, \* what the last call of get_proxy_stats returned
    deleted         \* what the last call of cleanup returned

\* a ProxyCache object and its cache file (proxy_cache.py); the time it
\* reads is now
VARIABLES
    cache_file,        \* the file: [state |-> "missing", "corrupt" or
                       \* "json", content |-> the dict it holds]
    cache,             \* self.cache: proxy_string -> [timestamp, data]
    memory_only_cache, \* self.memory_only_cache: proxy_string -> data
    last_save,         \* self.last_save
    get_returned       \* the last call of get: its argument and what it
                       \* returned

cacheVars ==
    <<cache_file, cache, memory_only_cache, last_save, get_returned>>

analyticsVars ==
    <<proxy_checks, proxy_stats, now, tz, stats_returned, deleted>>

checkerVars ==
    <<proxies, proto, target, pcMain, batch_start, sem, checked, live,
      returned, progress, task, result, portLog, portConn, probes>>

vars == <<checkerVars, analyticsVars, cacheVars>>

Total == Len(proxies)
Positions == 1..Total

\* mutant: a batch starts with the last candidate of the batch before
BatchOfOverlapping(bs) == {i \in Positions : bs <= i /\ i <= bs + BATCH_SIZE}

\* the positions of the batch that starts at offset bs (checker.py:286)
BatchOf(bs) == {i \in Positions : bs < i /\ i <= bs + BATCH_SIZE}

\* hung names the I/O step of the pending call on which the peer went
\* silent, "stalled" a call that goes on past the outer deadline without any
\* single step running into its timeout, "" a call that is served
NewTask ==
    [pc |-> "new", idx |-> 0, passed |-> 0, total_time |-> 0,
     first_ip |-> <<>>, clock |-> 0, hung |-> ""]

InFlight(i) == task[i].pc \in {"port", "check"}
Finished(i) == task[i].pc \in {"done", "raised"}

\* ProxyAnalytics.__init__ on a new database file: _init_db creates the
\* two tables, empty (proxy_analytics.py:57-103)
InitAnalytics(Offsets) ==
    /\ proxy_checks = <<>>
    /\ proxy_stats = <<>>
    /\ now = 0
    /\ tz \in Offsets
    /\ stats_returned = <<>>
    /\ deleted = 0

None == "None"

\* a dict with no key, and dict d after d[k] = v
EmptyDict == [k \in {} |-> None]
Put(d, k, v) == [x \in DOMAIN d \cup {k} |-> IF x = k THEN v ELSE d[x]]

NoFile == [state |-> "missing", content |-> EmptyDict]
JsonFile(d) == [state |-> "json", content |-> d]

\* _load_cache: the dict in the file; {} if there is no file or it cannot
\* be parsed (proxy_cache.py:21-28)
LoadCache(file) == IF file.state = "json" THEN file.content ELSE EmptyDict

\* ProxyCache.__init__ at time t on one of Files: the persistent cache is
\* loaded, the memory cache is empty (proxy_cache.py:12-19)
InitCache(Files, t) ==
    /\ cache_file \in Files
    /\ cache = LoadCache(cache_file)
    /\ memory_only_cache = EmptyDict
    /\ last_save = t
    /\ get_returned = [key |-> None, data |-> None]

InitChecker(Candidates, Protos, Targets) ==
    /\ proxies \in Candidates
    /\ proto \in Protos
    /\ target \in Targets
    /\ pcMain = "start"
    /\ batch_start = 0
    /\ sem = 0
    /\ checked = 0
    /\ live = <<>>
    /\ returned = <<>>
    /\ progress = <<>>
    /\ task = [i \in 1..Len(proxies) |-> NewTask]
    /\ result = [i \in 1..Len(proxies) |-> ProxyResult(proxies[i], proto)]
    /\ portLog = [i \in 1..Len(proxies) |-> <<>>]
    /\ portConn = [i \in 1..Len(proxies) |-> <<>>]
    /\ probes = [i \in 1..Len(proxies) |-> <<>>]

\* a run of the checker, next to an analytics database that is not used
InitWith(Candidates, Protos, Targets) ==
    /\ InitAnalytics({0})
    /\ InitCache({NoFile}, 0)
    /\ InitChecker(Candidates, Protos, Targets)

(* ------------------------------- check_all ----------------------------- *)
\* live.sort(key=lambda r: r.response_time): a stable insertion sort
RECURSIVE InsertByTime(_, _)
InsertByTime(sorted, r) ==
    IF sorted = <<>> THEN <<r>>
    ELSE IF sorted[Len(sorted)].response_time <= r.response_time
         THEN Append(sorted, r)
         ELSE Append(InsertByTime(SubSeq(sorted, 1, Len(sorted) - 1), r),
                     sorted[Len(sorted)])

\* mutant: the list is returned in the order of the input
Unsorted(s) == s

RECURSIVE SortByTime(_)
SortByTime(s) ==
    IF s = <<>> THEN <<>>
    ELSE InsertByTime(SortByTime(SubSeq(s, 1, Len(s) - 1)), s[Len(s)])

\* mutant: no more than target results are returned when a target is set
ReturnedLiveUpToTarget(lv) ==
    IF target > 0 /\ Len(lv) > target
    THEN SubSeq(SortByTime(lv), 1, target)
    ELSE SortByTime(lv)

\* live.sort(key=lambda r: r.response_time); return live: the whole list
\* of alive results, whatever the target (checker.py:319-321)
ReturnedLive(lv) == SortByTime(lv)

\* asyncio.gather(*[_task(p) for p in batch]): the batch's tasks are
\* created behind a fresh semaphore (checker.py:286-301)
StartBatch(bs) ==
    /\ batch_start' = bs
    /\ sem' = MAX_CONCURRENT
    /\ task' = [i \in Positions |->
                  IF i \in BatchOf(bs) THEN [task[i] EXCEPT !.pc = "wait"]
                  ELSE task[i]]
    /\ pcMain' = "gather"

\* check_all is called: the first batch is dispatched, or an empty list
\* is returned at once
Call ==
    /\ pcMain = "start"
    /\ IF Total = 0
       THEN /\ pcMain' = "done"
            /\ UNCHANGED <<batch_start, sem, task>>
       ELSE StartBatch(0)
    /\ UNCHANGED analyticsVars
    /\ UNCHANGED cacheVars
    /\ UNCHANGED <<proxies, proto, target, checked, live, returned, progress,
                   result, portLog, portConn, probes>>

\* what gather hands back for position i: the task's ProxyResult, or the
\* exception it raised, for which check_all reports a dummy
Reported(i) == IF task[i].pc = "raised" THEN Dummy(proto) ELSE result[i]

\* mutant: on_progress is called for the alive results only
BatchCallsAliveOnly(chk, got) ==
    LET told == SelectSeq(got, LAMBDA i : Reported(i).alive)
    IN  [k \in 1..Len(told) |-> [checked |-> chk + told[k] - batch_start,
                                 total |-> Total,
                                 result |-> Reported(told[k])]]

\* mutant: the calls are made from the last result of the batch to the first
BatchCallsReversed(chk, got) ==
    [k \in 1..Len(got) |-> [checked |-> chk + k, total |-> Total,
                            result |-> Reported(got[Len(got) + 1 - k])]]

\* the on_progress calls of the loop over a batch's results got, chk
\* candidates having been counted before: checked is incremented before
\* each call (checker.py:303-313)
BatchCalls(chk, got) ==
    [k \in 1..Len(got) |-> [checked |-> chk + k, total |-> Total,
                            result |-> Reported(got[k])]]

\* mutant: the target is never tested
TargetNeverReached(lv) == FALSE

\* the early-stop test made after a batch's results were collected
\* (checker.py:316)
TargetReached(lv) == target > 0 /\ Len(lv) >= target

\* mutant: gather is abandoned once the finished tasks reach the target
GatherReturnedOrTargetMet ==
    \/ \A i \in BatchOf(batch_start) : Finished(i)
    \/ /\ target > 0
       /\ Len(live) + Cardinality({i \in BatchOf(batch_start) :
                                     task[i].pc = "done" /\ result[i].alive})
             >= target

\* await asyncio.gather(...) returned: every task of the batch has finished
\* (checker.py:299-301)
GatherReturned == \A i \in BatchOf(batch_start) : Finished(i)

\* gather(..., return_exceptions=True): the exception of a task is handed
\* back as its result instead of being raised in check_all (checker.py:300)
return_exceptions == TRUE

\* gather re-raises the exception of a task of the batch
GatherRaised ==
    /\ ~return_exceptions
    /\ \E i \in BatchOf(batch_start) : task[i].pc = "raised"

\* gather returned: the loop over the batch's results, then the early-stop
\* test, then either the next batch or the sort and the return
\* (checker.py:303-321)
Collect ==
    /\ pcMain = "gather"
    /\ GatherReturned \/ GatherRaised
    /\ LET n     == Cardinality(BatchOf(batch_start))
           got   == [k \in 1..n |-> batch_start + k]
           alive == SelectSeq(got, LAMBDA i : task[i].pc = "done" /\ result[i].alive)
           live2 == live \o [k \in 1..Len(alive) |-> result[alive[k]]]
       IN  IF GatherRaised
           THEN /\ pcMain' = "raised"
                /\ UNCHANGED <<batch_start, sem, task, checked, live,
                               returned, progress>>
           ELSE /\ checked' = checked + n
                /\ live' = live2
                /\ progress' = progress \o BatchCalls(checked, got)
                /\ IF TargetReached(live2) \/ batch_start + BATCH_SIZE >= Total
                   THEN /\ returned' = ReturnedLive(live2)
                        /\ pcMain' = "done"
                        /\ UNCHANGED <<batch_start, sem, task>>
                   ELSE /\ StartBatch(batch_start + BATCH_SIZE)
                        /\ UNCHANGED returned
    /\ UNCHANGED analyticsVars
    /\ UNCHANGED cacheVars
    /\ UNCHANGED <<proxies, proto, target, result, portLog, portConn,
                   probes>>

(* -------------------------- one candidate's task ----------------------- *)
\* how long the prefilter's connect may take: it completes quickly or just
\* inside PORT_CHECK_TIMEOUT; it is refused quickly or times out
PortOpenDurs == {QuickUs, Sec(PORT_CHECK_TIMEOUT) - QuickUs}
PortClosedDurs == {QuickUs, Sec(PORT_CHECK_TIMEOUT)}

\* a check that the outer deadline overtakes whenever it started: a response
\* that trickles in read by read, or the blocking name lookup of a SOCKS check
StalledUs == OuterDeadline

\* the longest a check takes whose I/O steps each end just inside their own
\* timeout: connect and read for httpx (3 s, 6 s) and for SOCKS (6 s, 6 s)
SlowCheckUs(pr) ==
    IF pr \in {"http", "https"}
    THEN Sec(HTTPX_CONNECT_TIMEOUT) + Sec(TIMEOUT_SECONDS) - QuickUs
    ELSE Sec(TIMEOUT_SECONDS) + Sec(TIMEOUT_SECONDS) - QuickUs

\* the I/O steps of a call on which the peer may go silent
IOSteps == {"connect", "read", "write"}

\* the steps of a checker that wait for the peer: the connect and the reads
\* of a SOCKS handshake (write and drain hand a request of at most ten bytes
\* to the transport and return without waiting), the connect, the write and
\* the reads of httpx
WaitingSteps(pr) ==
    IF pr \in {"http", "https"} THEN IOSteps ELSE {"connect", "read"}

\* the timeout that a checker puts on a step, in microseconds: httpx.Timeout(
\* timeout, connect=3.0, read=timeout) and wait_for(..., timeout=timeout)
\* (checker.py:151, 70-72, 83, 101-103, 112, 127)
StepTimeoutUs(pr, step) ==
    IF pr \in {"http", "https"} /\ step = "connect"
    THEN Sec(HTTPX_CONNECT_TIMEOUT)
    ELSE Sec(TIMEOUT_SECONDS)

\* mutant: only the connect runs under a timeout
BoundedConnectOnly(pr, step) == step = "connect"

\* the checker runs the step under a timeout
Bounded(pr, step) == step \in WaitingSteps(pr)

\* what a checker's step yields when its timeout fires
TimedOut(pr, step) ==
    IF pr \in {"http", "https"} THEN HttpError
    ELSE IF step = "connect" THEN SocksConnFail
    ELSE SocksTimeout

\* the durations that the pending call of task t may take, Durs being those
\* of a call that is served: a silent step lasts until its timeout fires
PendingDurs(t, pr, Durs) ==
    IF t.hung = ""
    THEN (IF t.pc = "port" THEN PortOpenDurs \cup PortClosedDurs ELSE Durs)
    ELSE IF t.pc = "port" THEN {Sec(PORT_CHECK_TIMEOUT)}
    ELSE IF t.hung \in IOSteps /\ Bounded(pr, t.hung)
    THEN {StepTimeoutUs(pr, t.hung)}
    ELSE {StalledUs}

\* mutant: check_proxy is awaited without a deadline
NeverOverruns(t, d) == FALSE

\* the call pending in task t, taking d more microseconds, would end after
\* the deadline of wait_for (checker.py:292-295)
Overruns(t, d) == t.clock + d > OuterDeadline

\* the peer goes silent on a step of the pending call of task i, or the
\* call starts to drag on
Hang(i, step) ==
    /\ InFlight(i)
    /\ task[i].hung = ""
    /\ step \in (IF task[i].pc = "port" THEN {"connect"}
                 ELSE WaitingSteps(proto) \cup {"stalled"})
    /\ task' = [task EXCEPT ![i].hung = step]
    /\ UNCHANGED analyticsVars
    /\ UNCHANGED cacheVars
    /\ UNCHANGED <<proxies, proto, target, pcMain, batch_start, sem, checked,
                   live, returned, progress, result, portLog, portConn,
                   probes>>

\* the task leaves the semaphore with its ProxyResult r; its locals are
\* gone, the clock keeps the time at which its last step ended or, for a
\* step that was cancelled, would have ended
Leave(i, r, at) ==
    /\ task' = [task EXCEPT ![i] = [NewTask EXCEPT !.pc = "done", !.clock = at,
                                                   !.hung = task[i].hung]]
    /\ result' = [result EXCEPT ![i] = r]
    /\ sem' = sem + 1

\* mutant: the semaphore is not awaited
SemAlwaysFree == TRUE

\* async with sem: a slot of the semaphore is free (checker.py:290)
SemFree == sem > 0

\* _task gets a slot of the semaphore and check_proxy runs up to its first
\* await: the format checks, then the call of _port_open
\* (checker.py:184-198, 289-295)
Enter(i) ==
    /\ pcMain = "gather"
    /\ task[i].pc = "wait"
    /\ SemFree
    /\ IF ~IsStr(proxies[i])
       THEN /\ task' = [task EXCEPT ![i].pc = "raised"]
            /\ UNCHANGED <<sem, result, portLog>>
       ELSE IF FormatError(proxies[i]) # ""
       THEN /\ task' = [task EXCEPT ![i].pc = "done"]
            /\ result' = [result EXCEPT ![i].error = FormatError(proxies[i])]
            /\ UNCHANGED <<sem, portLog>>
       ELSE /\ task' = [task EXCEPT ![i].pc = "port"]
            /\ sem' = sem - 1
            /\ portLog' = [portLog EXCEPT ![i] = Append(@, "pending")]
            /\ UNCHANGED result
    /\ UNCHANGED analyticsVars
    /\ UNCHANGED cacheVars
    /\ UNCHANGED <<proxies, proto, target, pcMain, batch_start, checked, live,
                   returned, progress, portConn, probes>>

\* mutant: the total is taken before the HTTPS endpoint is appended
ChecksTotalHttpOnly(pr) ==
    IF pr \in {"http", "https"} THEN Len(VALIDATION_URLS) ELSE Len(test_targets)

\* result.checks_total = len(urls) or len(test_targets)
\* (checker.py:213, 235)
ChecksTotal(pr) == Len(Endpoints(pr))

\* the answer of _port_open is written over the pending call
Answered(log, answer) == [log EXCEPT ![Len(log)] = answer]

\* _port_open returned True after d microseconds: checks_total is set and
\* the checker of the first endpoint is called (checker.py:202-216, 228-241)
PortOpened(i, d) ==
    LET r == [result[i] EXCEPT !.checks_total = ChecksTotal(proto)]
    IN  /\ portLog' = [portLog EXCEPT ![i] = Answered(@, "open")]
        /\ IF Len(Endpoints(proto)) = 0
           THEN Leave(i, Finalize(r, 0, 0, <<>>), task[i].clock + d)
           ELSE /\ task' = [task EXCEPT ![i].pc = "check", ![i].idx = 1,
                                        ![i].clock = @ + d, ![i].hung = ""]
                /\ result' = [result EXCEPT ![i] = r]
                /\ UNCHANGED sem

\* mutant: a closed port does not end the candidate
PortClosedGoesOn(i, d) ==
    /\ portLog' = [portLog EXCEPT ![i] = Answered(@, "closed")]
    /\ task' = [task EXCEPT ![i].pc = "check", ![i].idx = 1]
    /\ result' = [result EXCEPT ![i].checks_total = ChecksTotal(proto)]
    /\ UNCHANGED sem

\* mutant: a closed port is tried a second time
PortClosedRetries(i, d) ==
    IF Len(portLog[i]) < 2
    THEN /\ portLog' = [portLog EXCEPT ![i] =
                          Append(Answered(@, "closed"), "pending")]
         /\ task' = [task EXCEPT ![i].clock = @ + d, ![i].hung = ""]
         /\ UNCHANGED <<result, sem>>
    ELSE /\ portLog' = [portLog EXCEPT ![i] = Answered(@, "closed")]
         /\ Leave(i, [result[i] EXCEPT !.error = "port closed"],
                  task[i].clock + d)

\* _port_open returned False: the candidate is dead (checker.py:198-200)
PortClosed(i, d) ==
    /\ portLog' = [portLog EXCEPT ![i] = Answered(@, "closed")]
    /\ Leave(i, [result[i] EXCEPT !.error = "port closed"], task[i].clock + d)

\* what the peer does during one call of _port_open: the connect completes
\* and the connection closes quietly; the connect completes and the peer
\* resets the connection before the close has been waited for; the connect
\* is refused; the connect is still pending when the timeout expires
PortConns == {"connected", "reset", "refused", "timeout"}

\* _port_open (checker.py:48-58): True when open_connection returned within
\* the timeout and close() and wait_closed() raised nothing; wait_closed()
\* raises the error the connection was lost with, and every Exception raised
\* in the try block gives False
PortOpen(conn) == conn = "connected"

\* how long the call takes: a connect that completes does so before the
\* timeout, a pending one is cancelled at the timeout
PortDurs(conn) ==
    IF conn \in {"connected", "reset"} THEN PortOpenDurs
    ELSE IF conn = "refused" THEN {QuickUs}
    ELSE {Sec(PORT_CHECK_TIMEOUT)}

\* _port_open returned after d microseconds
PortDone(i, conn, d) ==
    /\ task[i].pc = "port"
    /\ conn \in PortConns
    /\ d \in PortDurs(conn)
    /\ task[i].hung # "" =>
          (conn = "timeout" /\ d \in PendingDurs(task[i], proto, {}))
    /\ ~Overruns(task[i], d)
    /\ portConn' = [portConn EXCEPT ![i] =
                      Append(@, [conn |-> conn, took |-> d])]
    /\ IF PortOpen(conn) THEN PortOpened(i, d) ELSE PortClosed(i, d)
    /\ UNCHANGED analyticsVars
    /\ UNCHANGED cacheVars
    /\ UNCHANGED <<proxies, proto, target, pcMain, batch_start, checked, live,
                   returned, progress, probes>>

\* mutant: check_proxy has no handler around the endpoint loop
CheckProxyCatchesNothing == FALSE

\* try: ... except Exception: pass around the endpoint loop: whatever a
\* checker raises ends the loop and the result is finalized
\* (checker.py:206, 248-249)
CheckProxyCatches == TRUE

\* mutant: the loop has no break
ContinuesAfterFailure(o, idx, n) == idx < n

\* the endpoint loop goes on to the next endpoint: the check passed and the
\* list is not exhausted; a failed check breaks (checker.py:215-226, 239-247)
Continues(o, idx, n) == o.ok /\ idx < n

\* the checker of endpoint idx returned after d microseconds, the transport
\* having done ev (checker.py:215-226, 239-255): a success moves on to the
\* next endpoint, a failure breaks the loop; after the loop the result is
\* finalized
CheckDone(i, ev, d) ==
    /\ task[i].pc = "check"
    /\ task[i].hung # "" =>
          /\ d \in PendingDurs(task[i], proto, {})
          /\ d # StalledUs
          /\ ev = TimedOut(proto, task[i].hung)
    /\ ~Overruns(task[i], d)
    /\ LET ep == Endpoints(proto)[task[i].idx]
           o  == CheckOutcome(proto, ev, d, ep)
           t  == AfterCheck(task[i], o)
       IN  /\ probes' = [probes EXCEPT ![i] =
                           Append(@, [endpoint |-> ep, ok |-> o.ok,
                                      elapsed |-> o.elapsed, ip |-> o.ip,
                                      sent |-> o.sent, got |-> o.got,
                                      raised |-> o.raised,
                                      hung |-> task[i].hung, took |-> d,
                                      event |-> ev])]
           /\ IF o.raised /\ ~CheckProxyCatches
              THEN /\ task' = [task EXCEPT ![i] =
                                 [NewTask EXCEPT !.pc = "raised",
                                                 !.clock = task[i].clock + d]]
                   /\ sem' = sem + 1
                   /\ UNCHANGED result
              ELSE IF Continues(o, task[i].idx, Len(Endpoints(proto)))
              THEN /\ task' = [task EXCEPT ![i] =
                                 [t EXCEPT !.idx = @ + 1, !.clock = @ + d,
                                           !.hung = ""]]
                   /\ UNCHANGED <<result, sem>>
              ELSE Leave(i, Finalize(result[i], t.passed, t.total_time, t.first_ip),
                         task[i].clock + d)
    /\ UNCHANGED analyticsVars
    /\ UNCHANGED cacheVars
    /\ UNCHANGED <<proxies, proto, target, pcMain, batch_start, checked, live,
                   returned, progress, portLog, portConn>>

\* mutant: the result of a timeout carries no error
TimeoutResultNoError(p, pr) == ProxyResult(p, pr)

\* except asyncio.TimeoutError: a fresh ProxyResult with error "timeout"
\* (checker.py:296-297)
TimeoutResult(p, pr) == [ProxyResult(p, pr) EXCEPT !.error = "timeout"]

\* the outer deadline passes while the pending step would still take one of
\* the durations Durs: wait_for cancels check_proxy and _task returns a
\* fresh ProxyResult with error "timeout" (checker.py:292-297)
TaskTimeout(i, Durs) ==
    /\ InFlight(i)
    /\ \E d \in PendingDurs(task[i], proto, Durs) :
          /\ Overruns(task[i], d)
          /\ Leave(i, TimeoutResult(proxies[i], proto), task[i].clock + d)
    /\ UNCHANGED analyticsVars
    /\ UNCHANGED cacheVars
    /\ UNCHANGED <<proxies, proto, target, pcMain, batch_start, checked, live,
                   returned, progress, portLog, portConn, probes>>

(* ----------------------- what the network may do ----------------------- *)
IpA == <<"1", ".", "2", ".", "3", ".", "4">>
\* an address inside other text, as ip.me style pages give it
BodyB == <<"i", "p", " ", "5", ".", "6", ".", "7", ".", "8", " ">>
NoIpBody == <<"o", "k">>
\* four dot-separated digit runs, one of them above 255
BadOctetBody == <<"1", ".", "9", "9", "9", ".", "2", ".", "3">>

\* the batch specification: each check fails or passes
BatchEvents(pr) ==
    IF pr \in {"http", "https"} THEN {HttpError, HttpResp(200, IpA)}
    ELSE IF pr = "socks4" THEN {SocksConnFail, SocksReply(<<>>, <<0, 90>>)}
    ELSE {SocksConnFail, SocksReply(<<5, 0>>, <<5, 0>>)}

BatchDurs == {QuickUs, StalledUs}

\* the batch specifications: the port is open or refuses the connection
BatchConns == {"connected", "refused"}

\* a SOCKS4 grant followed by more bytes than the check reads
LongGrant == <<0, 90, 0, 80, 1, 2, 3, 4, 9, 9>>

\* the one-candidate specification: every kind of answer
CandidateEvents(pr) ==
    IF pr \in {"http", "https"}
    THEN {HttpError} \cup
         {HttpResp(200, b) : b \in {IpA, BodyB, NoIpBody, BadOctetBody}} \cup
         {HttpResp(403, IpA)}
    ELSE IF pr = "socks4"
    THEN {SocksConnFail, SocksTimeout, SocksLookupFail(<<>>), SocksRaise} \cup
         {SocksReply(<<>>, r) : r \in {<<0, 90>>, <<0, 91>>, <<90, 0>>, <<0>>,
                                       <<>>, LongGrant}}
    ELSE {SocksConnFail, SocksTimeout, SocksTimeoutAfter(<<5, 0>>),
          SocksLookupFail(<<5, 0>>), SocksRaise} \cup
         {SocksReply(g, r) : g \in {<<5, 0>>, <<5, 2>>, <<4, 0>>, <<5>>,
                                    <<5, 0, 5>>},
                             r \in {<<5, 0>>, <<5, 1>>, <<0, 0>>, <<>>}}

CandidateDurs(pr) == {QuickUs, 3 * QuickUs, SlowCheckUs(pr), StalledUs}

(* ------------------- ProxyAnalytics (proxy_analytics.py) ---------------- *)
\* Times are whole ticks, TicksPerDay of them to a calendar day; response
\* times are whole milliseconds; uptime_percentage is kept in thousandths of
\* a percent and reliability_score in millionths.

\* SQL NULL, Python None
NULL == "NULL"

\* date(t): the calendar day a time lies in
DateOf(t) == t \div TicksPerDay

\* a / b of SQLite for two INTEGER operands: the integer quotient
IntDiv(a, b) == a \div b

StatsKey(row) == <<row.proxy, row.proxy_type>>

\* positions of the rows of proxy_stats with the primary key (p, pt)
StatsRowsOf(p, pt) ==
    {k \in 1..Len(proxy_stats) : StatsKey(proxy_stats[k]) = <<p, pt>>}

\* 1 / (1 + CASE WHEN avg = 0 THEN 0.001 ELSE avg END), avg in seconds
\* (proxy_analytics.py:140-141, 146)
SpeedFactor(avg_ms) ==
    (1000 * ScoreScale) \div (1000 + (IF avg_ms = 0 THEN 1 ELSE avg_ms))

\* the row the INSERT makes when there is none with the key: uptime_percentage
\* and reliability_score are not in its column list and get their DEFAULT 0
\* (proxy_analytics.py:122-127, 82-95)
InsertedStats(p, pt, success, rt) ==
    [proxy |-> p, proxy_type |-> pt, first_seen |-> now, last_seen |-> now,
     success_count |-> IF success THEN 1 ELSE 0,
     failure_count |-> IF success THEN 0 ELSE 1,
     avg_response_time |-> IF success THEN rt ELSE 0,
     uptime_percentage |-> 0, reliability_score |-> 0, country |-> NULL]

\* the DO UPDATE SET of the upsert; every right-hand side reads the row as
\* it was before the statement (proxy_analytics.py:128-148)
UpdatedStats(old, success, rt) ==
    LET s       == old.success_count
        f       == old.failure_count
        new_avg == (old.avg_response_time * s + rt) \div (s + 1)
    IN  [old EXCEPT
           !.last_seen = now,
           !.success_count = IF success THEN s + 1 ELSE s,
           !.failure_count = IF ~success THEN f + 1 ELSE f,
           !.avg_response_time = IF success THEN new_avg ELSE @,
           !.uptime_percentage =
               (100000 * (s + (IF success THEN 1 ELSE 0))) \div (s + f + 1),
           !.reliability_score =
               IF success
               THEN IntDiv(s + 1, s + f + 1) * SpeedFactor(new_avg)
               ELSE IntDiv(s, s + f + 1) * SpeedFactor(old.avg_response_time)]

\* mutant: the statistics are inserted without ON CONFLICT
UpsertAlwaysInserts(p, pt, success, rt) ==
    Append(proxy_stats, InsertedStats(p, pt, success, rt))

\* INSERT INTO proxy_stats ... ON CONFLICT(proxy, proxy_type) DO UPDATE
Upsert(p, pt, success, rt) ==
    IF StatsRowsOf(p, pt) = {}
    THEN Append(proxy_stats, InsertedStats(p, pt, success, rt))
    ELSE [k \in 1..Len(proxy_stats) |->
            IF k \in StatsRowsOf(p, pt)
            THEN UpdatedStats(proxy_stats[k], success, rt)
            ELSE proxy_stats[k]]

\* the checks that the rows of proxy_stats count
RECURSIVE Counted(_)
Counted(rows) ==
    IF rows = <<>> THEN 0
    ELSE Head(rows).success_count + Head(rows).failure_count
            + Counted(Tail(rows))

\* the row of proxy_checks one call inserts; timestamp is the column's
\* DEFAULT CURRENT_TIMESTAMP, which is UTC (proxy_analytics.py:115-119)
CheckRow(p, pt, success, rt, site, err) ==
    [proxy |-> p, proxy_type |-> pt, timestamp |-> now,
     success |-> IF success THEN 1 ELSE 0, response_time |-> rt,
     test_site |-> site, error |-> err]

\* record_check(proxy, proxy_type, success, response_time, test_site, error)
\* (proxy_analytics.py:107-159): both statements, then the commit
RecordCheck(p, pt, success, rt, site, err) ==
    /\ Len(proxy_checks) < MaxChecks
    /\ Counted(proxy_stats) < MaxChecks
    /\ proxy_checks' = Append(proxy_checks, CheckRow(p, pt, success, rt, site, err))
    /\ proxy_stats' = Upsert(p, pt, success, rt)
    /\ UNCHANGED <<now, tz, stats_returned, deleted>>
    /\ UNCHANGED checkerVars
    /\ UNCHANGED cacheVars

\* the orders in which ORDER BY reliability_score DESC may give the rows:
\* rows of equal score come in an order SQLite does not promise
RECURSIVE Orderings(_)
Orderings(rows) ==
    IF rows = {} THEN {<<>>}
    ELSE UNION {{<<r>> \o rest : rest \in Orderings(rows \ {r})} :
                r \in {x \in rows : \A y \in rows :
                          x.reliability_score >= y.reliability_score}}

\* WHERE (success_count + failure_count) >= min_checks
EnoughChecks(row, min_checks) ==
    row.success_count + row.failure_count >= min_checks

\* get_proxy_stats(proxy_type, min_checks, min_uptime, limit)
\* (proxy_analytics.py:173-207)
Selected(pt, min_checks, min_uptime) ==
    {proxy_stats[k] : k \in {j \in 1..Len(proxy_stats) :
        /\ EnoughChecks(proxy_stats[j], min_checks)
        /\ proxy_stats[j].uptime_percentage >= min_uptime
        /\ pt # NULL => proxy_stats[j].proxy_type = pt}}

GetProxyStats(pt, min_checks, min_uptime, limit) ==
    /\ \E order \in Orderings(Selected(pt, min_checks, min_uptime)) :
          stats_returned' = Take(order, limit)
    /\ UNCHANGED <<proxy_checks, proxy_stats, now, tz, deleted>>
    /\ UNCHANGED checkerVars
    /\ UNCHANGED cacheVars

\* (datetime.now() - timedelta(days)).strftime('%Y-%m-%d'): the local
\* calendar day `days` days ago (proxy_analytics.py:383)
RetentionDate(days) == DateOf(now + tz - days * TicksPerDay)

\* mutant: the age is taken to the tick, in UTC
TooOldToTheTick(row, days) == row.timestamp < now - days * TicksPerDay

\* DELETE FROM proxy_checks WHERE date(timestamp) < retention_date
TooOld(row, days) == DateOf(row.timestamp) < RetentionDate(days)

\* cleanup(days) (proxy_analytics.py:380-405): the check rows, then the
\* statistics of proxies not seen since and with few checks; returns the
\* rowcount of the first DELETE
Cleanup(days) ==
    /\ proxy_checks' = SelectSeq(proxy_checks, LAMBDA r : ~TooOld(r, days))
    /\ deleted' = Len(proxy_checks) - Len(proxy_checks')
    /\ proxy_stats' =
          SelectSeq(proxy_stats,
                    LAMBDA r : ~(/\ DateOf(r.last_seen) < RetentionDate(days)
                                 /\ r.success_count + r.failure_count < FEW_CHECKS))
    /\ UNCHANGED <<now, tz, stats_returned>>
    /\ UNCHANGED checkerVars
    /\ UNCHANGED cacheVars

\* time passes
Tick ==
    /\ now < MaxNow
    /\ now' = now + 1
    /\ UNCHANGED <<proxy_checks, proxy_stats, tz, stats_returned, deleted>>
    /\ UNCHANGED checkerVars
    /\ UNCHANGED cacheVars

(* ------------------------------ ProxyCache ----------------------------- *)
\* timedelta(hours=max_age_hours) and save_interval, in ticks
MaxAge == (MAX_AGE_HOURS * TicksPerDay) \div 24
SaveInterval == (SAVE_INTERVAL * TicksPerDay) \div (24 * 3600)

\* datetime.now() - datetime.fromisoformat(entry['timestamp'])
\*     < self.max_age (proxy_cache.py:56-57, 88)
Fresh(entry) == now - entry.timestamp < MaxAge

\* _save_cache: the dict is dumped to a temporary file that replaces the
\* cache file (proxy_cache.py:29-45); the file system is taken to work
SaveCache(c) == cache_file' = JsonFile(c)

\* get(proxy_string): the memory cache is looked up first and answers
\* whatever it holds; otherwise an entry of the persistent cache that is
\* younger than max_age is copied to the memory cache and returned;
\* otherwise None (proxy_cache.py:47-61)
Get(proxy_string) ==
    /\ IF proxy_string \in DOMAIN memory_only_cache
       THEN /\ get_returned' = [key |-> proxy_string,
                                data |-> memory_only_cache[proxy_string]]
            /\ UNCHANGED memory_only_cache
       ELSE IF /\ proxy_string \in DOMAIN cache
               /\ Fresh(cache[proxy_string])
            THEN /\ memory_only_cache' =
                       Put(memory_only_cache, proxy_string,
                           cache[proxy_string].data)
                 /\ get_returned' = [key |-> proxy_string,
                                     data |-> cache[proxy_string].data]
            ELSE /\ get_returned' = [key |-> proxy_string, data |-> None]
                 /\ UNCHANGED memory_only_cache
    /\ UNCHANGED <<cache_file, cache, last_save>>
    /\ UNCHANGED analyticsVars
    /\ UNCHANGED checkerVars

\* set(proxy_string, data): both caches take the entry, the persistent one
\* with the time of the call, and the file is written (proxy_cache.py:63-81)
Set(proxy_string, data) ==
    /\ memory_only_cache' = Put(memory_only_cache, proxy_string, data)
    /\ cache' = Put(cache, proxy_string,
                    [timestamp |-> now, data |-> data])
    /\ last_save' = IF now - last_save > SaveInterval THEN now
                    ELSE last_save
    /\ SaveCache(cache')
    /\ UNCHANGED get_returned
    /\ UNCHANGED analyticsVars
    /\ UNCHANGED checkerVars

\* clean(): the persistent cache keeps its entries younger than max_age
\* and is written to the file (proxy_cache.py:83-90)
Clean ==
    /\ cache' = [k \in {x \in DOMAIN cache : Fresh(cache[x])} |-> cache[k]]
    /\ SaveCache(cache')
    /\ UNCHANGED <<memory_only_cache, last_save, get_returned>>
    /\ UNCHANGED analyticsVars
    /\ UNCHANGED checkerVars

\* the process ends and a new one makes its ProxyCache on the same file
\* (proxy_cache.py:12-19)
NewProxyCache ==
    /\ cache' = LoadCache(cache_file)
    /\ memory_only_cache' = EmptyDict
    /\ last_save' = now
    /\ UNCHANGED <<cache_file, get_returned>>
    /\ UNCHANGED analyticsVars
    /\ UNCHANGED checkerVars

(* ---------------------------- specifications --------------------------- *)
\* all lists over S of length lo..hi
Lists(S, lo, hi) == UNION {[1..n -> S] : n \in lo..hi}

\* whole runs of the default protocol: lists of up to MaxProxies
\* candidates, each check passing or failing, quickly or never in time
Init ==
    InitWith(Lists({Good, NoPort, NotAStr}, 0, MaxProxies), {"http"},
             {0, MaxTarget})

Next ==
    \/ Call
    \/ Collect
    \/ \E i \in Positions : Enter(i)
    \/ \E i \in Positions, conn \in BatchConns : PortDone(i, conn, QuickUs)
    \/ \E i \in Positions, ev \in BatchEvents(proto), d \in BatchDurs :
          CheckDone(i, ev, d)
    \/ \E i \in Positions : TaskTimeout(i, BatchDurs)

Spec == Init /\ [][Next]_vars

\* one candidate at a time, every kind of candidate and of answer
InitCandidate ==
    InitWith(Lists({Good, NoPort, BadPort, ThreeFields, EmptyPort, NotAStr}, 1, 1),
             Protocols, {0, MaxTarget})

NextCandidate ==
    \/ Call
    \/ Collect
    \/ \E i \in Positions : Enter(i)
    \/ \E i \in Positions, conn \in PortConns :
          \E d \in PortDurs(conn) : PortDone(i, conn, d)
    \/ \E i \in Positions, ev \in CandidateEvents(proto), d \in CandidateDurs(proto) :
          CheckDone(i, ev, d)
    \/ \E i \in Positions : TaskTimeout(i, CandidateDurs(proto))

SpecCandidate == InitCandidate /\ [][NextCandidate]_vars

\* siblings: short lists checked through a SOCKS4 handshake, in which a
\* checker may also raise
SiblingEvents(pr) ==
    BatchEvents(pr) \cup (IF pr \in {"socks4", "socks5"} THEN {SocksRaise} ELSE {})

InitSiblings ==
    InitWith(Lists({Good, NoPort}, 2, MaxSiblings), {"socks4"}, {0})

NextSiblings ==
    \/ Call
    \/ Collect
    \/ \E i \in Positions : Enter(i)
    \/ \E i \in Positions, conn \in BatchConns : PortDone(i, conn, QuickUs)
    \/ \E i \in Positions, ev \in SiblingEvents(proto), d \in BatchDurs :
          CheckDone(i, ev, d)
    \/ \E i \in Positions : TaskTimeout(i, BatchDurs)

SpecSiblings == InitSiblings /\ [][NextSiblings]_vars

\* silent peers: short lists of well-formed candidates whose peers may go
\* silent on any waiting step or drag a check on; a check that is served
\* passes or fails, quickly or with each step just inside its timeout
HangEvents(pr) ==
    BatchEvents(pr) \cup {TimedOut(pr, step) : step \in WaitingSteps(pr)}

HangDurs(pr) == {QuickUs, SlowCheckUs(pr)}

InitHang == InitWith(Lists({Good}, 1, MaxHang), Protocols, {0})

\* the steps that the event loop takes for the task at position i
HangConns == {"connected", "refused", "timeout"}

TaskStep(i) ==
    \/ \E conn \in HangConns :
          \E d \in PortDurs(conn) \cap {QuickUs, Sec(PORT_CHECK_TIMEOUT)} :
             PortDone(i, conn, d)
    \/ \E ev \in HangEvents(proto),
          d \in PendingDurs(task[i], proto, HangDurs(proto)) :
          CheckDone(i, ev, d)
    \/ TaskTimeout(i, HangDurs(proto))

NextHang ==
    \/ Call
    \/ Collect
    \/ \E i \in Positions : Enter(i)
    \/ \E i \in Positions : TaskStep(i)
    \/ \E i \in Positions, step \in IOSteps \cup {"stalled"} : Hang(i, step)

\* the event loop runs every coroutine that is ready and fires every timer
\* that is due; whether a peer goes silent is up to the peer
FairHang ==
    /\ WF_vars(Call)
    /\ WF_vars(Collect)
    /\ \A i \in 1..MaxHang : WF_vars(i \in Positions /\ Enter(i))
    /\ \A i \in 1..MaxHang : WF_vars(i \in Positions /\ TaskStep(i))

SpecHang == InitHang /\ [][NextHang]_vars /\ FairHang

\* sorting: short SOCKS4 lists whose checks take different times
SortDurs == {QuickUs, 3 * QuickUs, StalledUs}

InitSort == InitWith(Lists({Good}, 1, MaxSort), {"socks4"}, {0})

NextSort ==
    \/ Call
    \/ Collect
    \/ \E i \in Positions : Enter(i)
    \/ \E i \in Positions, conn \in BatchConns : PortDone(i, conn, QuickUs)
    \/ \E i \in Positions, ev \in BatchEvents(proto), d \in SortDurs :
          CheckDone(i, ev, d)
    \/ \E i \in Positions : TaskTimeout(i, SortDurs)

SpecSort == InitSort /\ [][NextSort]_vars

\* an analytics object that records checks and is asked for its statistics
AnalyticsKeys == {<<"a", "http">>, <<"a", "https">>, <<"b", "http">>}

CheckInputs ==
    {[success |-> TRUE, rt |-> 200, site |-> "test.com", err |-> NULL],
     [success |-> TRUE, rt |-> 400, site |-> NULL, err |-> NULL],
     [success |-> FALSE, rt |-> 0, site |-> NULL, err |-> "Connection refused"]}

\* get_proxy_stats() and get_proxy_stats("http", 1)
StatsCalls ==
    {[proxy_type |-> NULL, min_checks |-> DEFAULT_MIN_CHECKS],
     [proxy_type |-> "http", min_checks |-> 1]}

InitAnalyticsOnly(Offsets) ==
    /\ InitChecker({<<>>}, {"http"}, {0})
    /\ InitCache({NoFile}, 0)
    /\ InitAnalytics(Offsets)

InitStats == InitAnalyticsOnly({0})

NextStats ==
    \/ \E k \in AnalyticsKeys, c \in CheckInputs :
          RecordCheck(k[1], k[2], c.success, c.rt, c.site, c.err)
    \/ \E c \in StatsCalls :
          GetProxyStats(c.proxy_type, c.min_checks, 0, DEFAULT_LIMIT)

SpecStats == InitStats /\ [][NextStats]_vars

\* an analytics object that records checks of one proxy while time passes
\* and is cleaned up now and then; local time is UTC or ahead of it
TzOffsets == {0, 1}
CleanupDays == {0, DEFAULT_DAYS}

InitCleanup == InitAnalyticsOnly(TzOffsets)

NextCleanup ==
    \/ RecordCheck("a", "http", TRUE, 200, NULL, NULL)
    \/ Tick
    \/ \E days \in CleanupDays : Cleanup(days)

SpecCleanup == InitCleanup /\ [][NextCleanup]_vars

\* a ProxyCache on a file that is missing, unreadable, or was written by
\* an earlier process just now or one max_age ago; entries are set, looked
\* up and cleaned while time passes, and the process is restarted
CacheKeys == {"a", "b"}
CacheData == {"x"}
CacheFiles ==
    {NoFile, [state |-> "corrupt", content |-> EmptyDict]}
    \cup {JsonFile(Put(EmptyDict, "a", [timestamp |-> t, data |-> "x"])) :
             t \in {0 - MaxAge, 0}}

InitCacheOnly ==
    /\ InitChecker({<<>>}, {"http"}, {0})
    /\ InitAnalytics({0})
    /\ InitCache(CacheFiles, 0)

NextCache ==
    \/ \E k \in CacheKeys, d \in CacheData : Set(k, d)
    \/ \E k \in CacheKeys : Get(k)
    \/ Clean
    \/ NewProxyCache
    \/ Tick

SpecCache == InitCacheOnly /\ [][NextCache]_vars

(* ================================ claims =============================== *)
Done(i) == task[i].pc = "done"

\* every ProxyResult made so far: those the finished tasks returned and
\* those handed to on_progress (the dummies among them)
Produced ==
    {result[i] : i \in {j \in Positions : Done(j)}}
        \cup {progress[k].result : k \in 1..Len(progress)}

\* C1: every result produced (by check_proxy, by the outer deadline, or
\* substituted for a raised task) is alive exactly when checks_passed =
\* checks_total and checks_total > 0; a dead one has checks_passed <
\* checks_total or checks_total = 0.
C1_AliveIffAllPassed ==
    \A r \in Produced :
        /\ r.alive <=> (r.checks_passed = r.checks_total /\ r.checks_total > 0)
        /\ ~r.alive => (r.checks_passed < r.checks_total \/ r.checks_total = 0)

\* an alive result, a dead one that passed some checks, a timed-out one and
\* a dummy have all been reported
C1_Witness ==
    /\ \E k \in 1..Len(progress) : progress[k].result.alive
    /\ \E k \in 1..Len(progress) :
          /\ ~progress[k].result.alive
          /\ progress[k].result.checks_passed > 0
    /\ \E k \in 1..Len(progress) : progress[k].result.error = "timeout"
    /\ \E k \in 1..Len(progress) : progress[k].result.proxy = <<"?">>

\* the endpoints the configuration lists, by protocol
HttpUrls == <<"http://icanhazip.com", "http://api.ipify.org", "http://ip.me">>
ConfiguredEndpoints ==
    IF proto = "http" THEN HttpUrls
    ELSE IF proto = "https" THEN HttpUrls \o <<"https://api.ipify.org">>
    ELSE <<"icanhazip.com:80", "api.ipify.org:80", "ip.me:80">>

\* C2: all-pass policy: a candidate is finalized alive only if its prefilter
\* answered open and every configured endpoint of its protocol, in order
\* (for https the 3 HTTP URLs, then the HTTPS URL), was probed and passed.
C2_AllPass ==
    \A i \in Positions :
        (Done(i) /\ result[i].alive) =>
            /\ portLog[i] = <<"open">>
            /\ Len(probes[i]) = Len(ConfiguredEndpoints)
            /\ \A k \in 1..Len(probes[i]) :
                  /\ probes[i][k].endpoint = ConfiguredEndpoints[k]
                  /\ probes[i][k].ok

\* an https candidate was finalized alive after 4 probes
C2_Witness ==
    \E i \in Positions :
        proto = "https" /\ Done(i) /\ result[i].alive /\ Len(probes[i]) = 4

\* C3: fail-fast: once the checker of endpoint k has returned failure, no
\* checker of a later endpoint is invoked for that candidate: the failed
\* probe is the last one and no further check is pending.
C3_FailFast ==
    \A i \in Positions : \A k \in 1..Len(probes[i]) :
        ~probes[i][k].ok => (k = Len(probes[i]) /\ task[i].pc # "check")

\* a candidate failed at an endpoint that is not the last one
C3_Witness ==
    \E i \in Positions :
        /\ Done(i)
        /\ Len(probes[i]) = 2
        /\ probes[i][1].ok /\ ~probes[i][2].ok
        /\ result[i].checks_total > 2

\* C4 as claimed: checks_total of every result is the configured number of
\* endpoints of the protocol, however the candidate was finalized.
C4_TotalAlwaysFull ==
    \A r \in Produced : r.checks_total = Len(ConfiguredEndpoints)

\* C4 amended: a result that check_proxy finalized after the prefilter
\* answered open has checks_total = the configured number of endpoints (3,
\* or 4 for https), however few were attempted; a result finalized by a
\* format error, a closed port or the outer deadline, and the dummy of a
\* raised task, has checks_total = 0.
C4_TotalFullOncePortOpen ==
    /\ \A i \in Positions :
          Done(i) =>
              result[i].checks_total =
                  IF portLog[i] = <<"open">> /\ result[i].error # "timeout"
                  THEN Len(ConfiguredEndpoints) ELSE 0
    /\ \A k \in 1..Len(progress) :
          progress[k].result.proxy = <<"?">> => progress[k].result.checks_total = 0

\* an https candidate stopped at its first endpoint and still counts 4
C4_Witness ==
    \E i \in Positions :
        /\ proto = "https" /\ Done(i)
        /\ Len(probes[i]) = 1
        /\ result[i].checks_total = 4

\* probes: the first k passed, then endpoint k + 1 failed
FailedAfter(i, k) ==
    /\ Len(probes[i]) = k + 1
    /\ \A j \in 1..k : probes[i][j].ok
    /\ ~probes[i][k + 1].ok

\* C5: when the first k endpoints pass and the checker of endpoint k + 1
\* returns failure (k < N), the result reported for the candidate is dead
\* with checks_passed = k, checks_total = N and ip_returned the identifier
\* of the first passed check.
C5_PartialPass ==
    \A n \in 1..Len(progress) :
        LET i == progress[n].checked
            r == progress[n].result
        IN  \A k \in 0..(Len(ConfiguredEndpoints) - 1) :
                FailedAfter(i, k) =>
                    /\ ~r.alive
                    /\ r.checks_passed = k
                    /\ r.checks_total = Len(ConfiguredEndpoints)
                    /\ r.ip_returned = (IF k >= 1 THEN probes[i][1].ip ELSE <<>>)

\* http: endpoints 1 and 2 returned 1.2.3.4, endpoint 3 failed, and the
\* result was reported as 2 of 3
C5_Witness ==
    /\ proto = "http"
    /\ Len(progress) = 1
    /\ FailedAfter(1, 2)
    /\ progress[1].result.checks_passed = 2
    /\ progress[1].result.checks_total = 3
    /\ progress[1].result.ip_returned = <<"1", ".", "2", ".", "3", ".", "4">>

\* the elapsed microseconds of the passed probes of a log
RECURSIVE SumOk(_)
SumOk(log) ==
    IF log = <<>> THEN 0
    ELSE SumOk(SubSeq(log, 1, Len(log) - 1))
         + (IF log[Len(log)].ok THEN log[Len(log)].elapsed ELSE 0)

Abs(x) == IF x < 0 THEN -x ELSE x

\* C6 as claimed: response_time is 0 when checks_passed = 0 and otherwise
\* is the mean of the elapsed times of the passed checks (response_time is
\* in milliseconds, the elapsed times in microseconds).
C6_ExactMean ==
    \A i \in Positions :
        Done(i) =>
            IF result[i].checks_passed = 0 THEN result[i].response_time = 0
            ELSE result[i].response_time * 1000 * result[i].checks_passed
                     = SumOk(probes[i])

\* C6 amended: response_time is 0 when checks_passed = 0 and otherwise is
\* the mean of the elapsed times of the passed checks only, rounded to 3
\* decimals: it lies within half a millisecond of that mean.
C6_RoundedMean ==
    \A i \in Positions :
        Done(i) =>
            IF result[i].checks_passed = 0 THEN result[i].response_time = 0
            ELSE 2 * Abs(result[i].response_time * 1000 * result[i].checks_passed
                         - SumOk(probes[i]))
                     <= 1000 * result[i].checks_passed

\* two checks passed, a third failed after a measured time, and the mean is
\* no whole number of milliseconds
C6_Witness ==
    \E i \in Positions :
        /\ Done(i)
        /\ result[i].checks_passed = 2
        /\ Len(probes[i]) = 3
        /\ probes[i][3].elapsed > 0
        /\ SumOk(probes[i]) % 2000 # 0

\* the first non-empty identifier among the passed probes of a log
RECURSIVE FirstIdentifier(_)
FirstIdentifier(log) ==
    IF log = <<>> THEN <<>>
    ELSE IF log[1].ok /\ log[1].ip # <<>> THEN log[1].ip
    ELSE FirstIdentifier(Tail(log))

\* C7 as claimed: ip_returned of every result is the first non-empty
\* identifier a passed check returned, empty when there is none.
C7_FirstIdentifier ==
    \A i \in Positions :
        Done(i) => result[i].ip_returned = FirstIdentifier(probes[i])

\* C7 amended: ip_returned of every result that check_proxy finalized is the
\* first non-empty identifier a passed check returned, in endpoint order,
\* and empty when there is none; a result forced by the outer deadline has
\* an empty ip_returned whatever the passed checks returned.
C7_FirstIdentifierUnlessTimeout ==
    \A i \in Positions :
        Done(i) =>
            result[i].ip_returned =
                IF result[i].error = "timeout" THEN <<>>
                ELSE FirstIdentifier(probes[i])

\* two passed checks returned different identifiers and the first is kept
C7_Witness ==
    \E i \in Positions :
        /\ Done(i) /\ result[i].error # "timeout"
        /\ Len(probes[i]) >= 2
        /\ probes[i][1].ok /\ probes[i][2].ok
        /\ probes[i][1].ip # probes[i][2].ip
        /\ result[i].ip_returned = probes[i][1].ip
        /\ result[i].ip_returned # <<>>

\* the number of colons of a string
RECURSIVE Colons(_)
Colons(p) ==
    IF p = <<>> THEN 0 ELSE (IF p[1] = ":" THEN 1 ELSE 0) + Colons(Tail(p))

\* the text after the last colon
RECURSIVE AfterColon(_)
AfterColon(p) ==
    IF p = <<>> \/ p[Len(p)] = ":" THEN <<>>
    ELSE Append(AfterColon(SubSeq(p, 1, Len(p) - 1)), p[Len(p)])

\* not exactly two colon-separated fields, or a port that is no integer
Malformed(p) ==
    \/ Colons(p) # 1
    \/ AfterColon(p) = <<>>
    \/ \E k \in 1..Len(AfterColon(p)) : AfterColon(p)[k] \notin Digits

\* C8: a malformed candidate string is finalized dead with a format error
\* and causes no network I/O: neither the prefilter nor any checker is ever
\* invoked for it.
C8_MalformedNoIO ==
    \A i \in Positions :
        (IsStr(proxies[i]) /\ Malformed(proxies[i])) =>
            /\ portLog[i] = <<>>
            /\ probes[i] = <<>>
            /\ task[i].pc \in {"new", "wait", "done"}
            /\ Done(i) =>
                  /\ ~result[i].alive
                  /\ result[i].error \in {"invalid format", "invalid port"}

\* "h:x" was reported dead with "invalid port"
C8_Witness ==
    /\ Len(progress) = 1
    /\ proxies[1] = <<"h", ":", "x">>
    /\ progress[1].result.error = "invalid port"
    /\ portLog[1] = <<>>

\* C9: when the prefilter answers closed, the candidate is finalized dead
\* with error "port closed" in that step and no checker is ever invoked.
C9_PortClosed ==
    \A i \in Positions :
        portLog[i] = <<"closed">> =>
            /\ Done(i)
            /\ ~result[i].alive
            /\ result[i].error = "port closed"
            /\ probes[i] = <<>>

\* a candidate with a closed port was reported
C9_Witness ==
    /\ Len(progress) = 1
    /\ portLog[1] = <<"closed">>
    /\ progress[1].result.error = "port closed"

InFlightCount == Cardinality({i \in Positions : InFlight(i)})

\* C10: at no instant of a run are more than MAX_CONCURRENT validations in
\* flight, counted over all candidates of the run.
C10_ConcurrencyBound == InFlightCount <= MAX_CONCURRENT

\* the semaphore binds: the limit is reached while a task of the batch waits
C10_Witness ==
    /\ InFlightCount = MAX_CONCURRENT
    /\ \E i \in Positions : task[i].pc = "wait"

\* the alive results among the candidates at positions 1..n
AliveAmong(n) ==
    Cardinality({i \in Positions : i <= n /\ Done(i) /\ result[i].alive})

\* the offset at which the batch of position i starts
BatchStartOf(i) == ((i - 1) \div BATCH_SIZE) * BATCH_SIZE

\* the multiples of the batch size below n: the batch boundaries before n
BoundariesBelow(n) == {b \in 1..n : b < n /\ b % BATCH_SIZE = 0}

\* something was done for the candidate at position i: its task was
\* created, it was prefiltered or an endpoint was probed through it
Touched(i) == task[i].pc # "new" \/ portLog[i] # <<>> \/ probes[i] # <<>>

\* C11: with a target T > 0, a candidate is touched (task created,
\* prefiltered, probed) only if every earlier batch is complete and the
\* alive results accumulated over the earlier batches are fewer than T; when
\* check_all has returned, the candidates checked are exactly those of
\* batches 1..k, k being the first batch at whose completion the alive
\* results reach T (all batches if they never do), and no later candidate
\* was touched.
C11_EarlyStop ==
    target > 0 =>
        /\ \A i \in Positions :
              Touched(i) =>
                  /\ \A j \in 1..BatchStartOf(i) : Finished(j)
                  /\ AliveAmong(BatchStartOf(i)) < target
        /\ pcMain = "done" =>
              /\ \A i \in Positions : Touched(i) <=> i <= checked
              /\ \A i \in 1..checked : Finished(i)
              /\ checked = Total
                    \/ (checked % BATCH_SIZE = 0 /\ AliveAmong(checked) >= target)
              /\ \A b \in BoundariesBelow(checked) : AliveAmong(b) < target

\* a run with a target returned after its first batch and left a later
\* candidate untouched
C11_Witness ==
    /\ pcMain = "done"
    /\ target > 0
    /\ checked = BATCH_SIZE
    /\ Total > BATCH_SIZE
    /\ AliveAmong(checked) >= target
    /\ ~Touched(Total)

\* C12: the early-stop test is made only at batch boundaries.  While a
\* batch is awaited nothing is counted, reported or returned, and the alive
\* results of its finished tasks are not yet in the list that the test
\* reads; once check_all has returned, every candidate of every dispatched
\* batch has finished and was reported with the result of its own task, and
\* a task that was cut short was cut by the outer deadline only.
C12_BatchRunsToCompletion ==
    /\ pcMain = "gather" =>
          /\ checked = batch_start
          /\ Len(progress) = batch_start
          /\ Len(live) = AliveAmong(batch_start)
          /\ returned = <<>>
    /\ pcMain = "done" =>
          \A i \in Positions :
              task[i].pc # "new" =>
                  /\ Finished(i)
                  /\ i <= Len(progress)
                  /\ Done(i) => progress[i].result = result[i]
    /\ \A i \in Positions :
          (Done(i) /\ result[i].error = "timeout") =>
              task[i].clock > OuterDeadline

\* a run with a target returned more alive results than the target: the
\* batch went on after the target was met
C12_Witness ==
    /\ pcMain = "done"
    /\ target > 0
    /\ Len(returned) > target
    /\ checked = BATCH_SIZE

\* the step taken finalizes candidate i past the outer deadline
CutShort(i) == InFlight(i) /\ Done(i)' /\ task'[i].clock > OuterDeadline

\* C13: no validation stays in flight past the outer deadline of
\* OUTER_FACTOR * TIMEOUT_SECONDS; the step that ends a candidate whose
\* pending step passes the deadline, at whichever endpoint, gives it the
\* result with error "timeout", alive false and nothing else recorded, and
\* changes no other candidate's task, result, prefilter log or probes.
C13_OuterDeadline ==
    [][\A i \in Positions :
          /\ InFlight(i)' => task'[i].clock <= OuterDeadline
          /\ CutShort(i) =>
                /\ ~result'[i].alive
                /\ result'[i] = [ProxyResult(proxies[i], proto) EXCEPT
                                    !.error = "timeout"]
                /\ \A j \in Positions \ {i} :
                      /\ task'[j] = task[j]
                      /\ result'[j] = result[j]
                /\ portLog' = portLog
                /\ probes' = probes]_vars

\* a candidate was cut short by the deadline after its first endpoint had
\* passed, while a sibling of its batch is still being checked
C13_Witness ==
    \E i, j \in Positions :
        /\ Done(i)
        /\ result[i].error = "timeout"
        /\ task[i].clock > OuterDeadline
        /\ Len(probes[i]) >= 1
        /\ task[j].pc = "check"

\* the candidate at position i met one of the per-candidate errors: a
\* format error, a closed port, a failed or raising check, or the deadline
Failed(i) ==
    \/ Malformed(proxies[i])
    \/ portLog[i] = <<"closed">>
    \/ task[i].clock > OuterDeadline
    \/ probes[i] # <<>> /\ ~probes[i][Len(probes[i])].ok

\* the number of passed probes of a log
PassedIn(log) == Len(SelectSeq(log, LAMBDA q : q.ok))

\* the result that the history of position i alone determines
OwnResult(i) ==
    LET fresh == ProxyResult(proxies[i], proto)
    IN  IF Malformed(proxies[i])
        THEN [fresh EXCEPT !.error = FormatError(proxies[i])]
        ELSE IF portLog[i] = <<"closed">>
        THEN [fresh EXCEPT !.error = "port closed"]
        ELSE IF task[i].clock > OuterDeadline
        THEN [fresh EXCEPT !.error = "timeout"]
        ELSE [fresh EXCEPT
                 !.checks_total = Len(Endpoints(proto)),
                 !.checks_passed = PassedIn(probes[i]),
                 !.alive = PassedIn(probes[i]) = Len(Endpoints(proto)),
                 !.response_time =
                     Round3(SumOk(probes[i]), Max(PassedIn(probes[i]), 1)),
                 !.ip_returned = FirstIdentifier(probes[i])]

\* C14: a candidate that met a per-candidate error (format error, closed
\* port, failed check, exception raised in a checker, outer deadline) ends
\* with a dead result carrying its own proxy string; the result of every
\* finished candidate is determined by its own history alone, whatever
\* happened to its siblings; check_all never leaves by an exception, and a
\* run without target reports every candidate and returns.
C14_ErrorsStayLocal ==
    /\ pcMain # "raised"
    /\ \A i \in Positions : task[i].pc # "raised"
    /\ \A i \in Positions :
          Done(i) =>
              /\ result[i] = OwnResult(i)
              /\ Failed(i) => (~result[i].alive /\ result[i].proxy = proxies[i])
    /\ pcMain = "done" =>
          /\ checked = Total
          /\ Len(progress) = Total
          /\ \A i \in Positions : Done(i) /\ progress[i].result = result[i]
          /\ returned = SortByTime(SelectSeq(
                 [i \in Positions |-> result[i]], LAMBDA r : r.alive))

\* a run returned an alive result although one sibling had a format error or
\* a closed port, one sibling's checker raised, and one sibling was cut by
\* the deadline
C14_Witness ==
    /\ pcMain = "done"
    /\ Len(returned) >= 1
    /\ \E i \in Positions :
          result[i].error \in {"invalid format", "port closed"}
    /\ \E i \in Positions :
          /\ probes[i] # <<>>
          /\ probes[i][Len(probes[i])].raised
          /\ ~result[i].alive
    /\ \E i \in Positions : result[i].error = "timeout"

LastProbe(i) == probes'[i][Len(probes'[i])]

\* C18: when the peer has gone silent on a connect, read or write step of
\* a check, the next thing that happens to the candidate is that the check
\* returns failure after no more than the per-check timeout, unless the
\* candidate's outer deadline falls before that and cuts the candidate.
C18_StepsBounded ==
    [][\A i \in Positions :
          (task[i].pc = "check" /\ task[i].hung \in IOSteps
              /\ task'[i] # task[i]) =>
              \/ /\ Len(probes'[i]) = Len(probes[i]) + 1
                 /\ ~LastProbe(i).ok
                 /\ LastProbe(i).hung = task[i].hung
                 /\ LastProbe(i).took <= Sec(TIMEOUT_SECONDS)
                 /\ Done(i)'
              \/ /\ Overruns(task[i], Sec(TIMEOUT_SECONDS))
                 /\ probes'[i] = probes[i]
                 /\ Done(i)'
                 /\ result'[i].error = "timeout"]_vars

\* a SOCKS5 peer went silent on a read and the check failed when the
\* per-check timeout fired
C18_Witness ==
    \E i \in Positions :
        /\ proto = "socks5"
        /\ Done(i)
        /\ probes[i] # <<>>
        /\ probes[i][Len(probes[i])].hung = "read"
        /\ probes[i][Len(probes[i])].took = Sec(TIMEOUT_SECONDS)
        /\ ~probes[i][Len(probes[i])].ok
        /\ result[i].error = ""
        /\ ~result[i].alive

\* how often the result r occurs in the sequence s
Occurrences(s, r) == Cardinality({k \in 1..Len(s) : s[k] = r})

\* the results of the candidates counted as checked, in input order
CheckedResults == [i \in 1..checked |-> Reported(i)]

\* C16: the list that check_all returns holds exactly the alive results of
\* the checked candidates, each as often as it was produced and no dead one,
\* in ascending order of response_time.
C16_AliveSorted ==
    pcMain = "done" =>
        /\ \A k \in 1..Len(returned) :
              /\ returned[k].alive
              /\ Occurrences(returned, returned[k])
                    = Occurrences(CheckedResults, returned[k])
        /\ \A i \in 1..checked :
              Reported(i).alive => Occurrences(returned, Reported(i)) >= 1
        /\ \A k \in 1..(Len(returned) - 1) :
              returned[k].response_time <= returned[k + 1].response_time

\* a run returned two alive results of which the slower came first in the
\* input
C16_Witness ==
    /\ pcMain = "done"
    /\ Len(returned) >= 2
    /\ \E i, j \in Positions :
          /\ i < j
          /\ result[i].alive /\ result[j].alive
          /\ result[i].response_time > result[j].response_time

\* C17: the k-th call of on_progress carries checked = k, the length of
\* the whole list as total, and the result of the candidate at position k
\* (the dummy for a task that raised); the calls made are as many as the
\* candidates counted, those of a batch follow its completion, and once
\* check_all has returned the candidates reported are exactly the finished
\* ones, each once.
C17_ProgressCalls ==
    /\ Len(progress) = checked
    /\ \A k \in 1..Len(progress) :
          /\ progress[k].checked = k
          /\ progress[k].total = Total
          /\ Finished(k)
          /\ progress[k].result = Reported(k)
    /\ pcMain = "gather" => Len(progress) = batch_start
    /\ pcMain = "done" =>
          \A i \in Positions : Finished(i) <=> i <= Len(progress)

\* a run of two batches returned: every candidate was reported, among them
\* an alive one, a dead one and one whose task raised
C17_Witness ==
    /\ pcMain = "done"
    /\ Total > BATCH_SIZE
    /\ Len(progress) = Total
    /\ \E k \in 1..Len(progress) : progress[k].result.alive
    /\ \E k \in 1..Len(progress) : progress[k].result.error # ""
    /\ \E k \in 1..Len(progress) : task[k].pc = "raised"

\* the probes made so far, over all positions
AllProbes == UNION {{probes[i][k] : k \in 1..Len(probes[i])} : i \in Positions}

\* C19: a SOCKS4 check writes nothing or the one request [4, 1, 0, 80
\* (port 80, high byte first), the 4 address bytes of the destination, 0],
\* reads only after having written it and at most 8 bytes, and succeeds
\* exactly when it read at least 2 bytes of which the second is 0x5A (90):
\* a reply with 0x5B, a reply of fewer than 2 bytes, a closed connection and
\* a timeout are failures.
C19_Socks4Handshake ==
    proto = "socks4" =>
        \A q \in AllProbes :
            /\ q.sent \in {<<>>,
                           << <<4, 1, 0, 80>> \o Resolve(q.endpoint) \o <<0>> >>}
            /\ Len(Resolve(q.endpoint)) = 4
            /\ Len(q.got) <= 1
            /\ q.got # <<>> => (q.sent # <<>> /\ Len(q.got[1]) <= 8)
            /\ q.ok <=> /\ q.got # <<>>
                        /\ Len(q.got[1]) >= 2
                        /\ q.got[1][2] = 90

\* a SOCKS4 candidate passed a check whose reply was cut at 8 bytes and
\* then failed one that was answered 0x5B
C19_Witness ==
    /\ proto = "socks4"
    /\ \E i \in Positions :
          /\ Done(i)
          /\ Len(probes[i]) >= 2
          /\ probes[i][1].ok
          /\ Len(probes[i][1].got[1]) = 8
          /\ probes[i][1].sent = << <<4, 1, 0, 80, 104, 16, 0, 1, 0>> >>
          /\ probes[i][Len(probes[i])].got = << <<0, 91>> >>
          /\ ~probes[i][Len(probes[i])].ok

\* C20: a SOCKS5 check writes nothing, the greeting [5, 1, 0] alone, or the
\* greeting and then the CONNECT request [5, 1, 0, 1, the 4 address bytes,
\* 0, 80]; the request is written only after the greeting was answered with
\* exactly [5, 0]; the check succeeds exactly when, after that, it read a
\* reply of at least 2 bytes of which the second is 0.
C20_Socks5Handshake ==
    proto = "socks5" =>
        \A q \in AllProbes :
            /\ q.sent \in {<<>>, << <<5, 1, 0>> >>,
                           << <<5, 1, 0>>,
                              <<5, 1, 0, 1>> \o Resolve(q.endpoint) \o <<0, 80>> >>}
            /\ Len(q.got) <= Len(q.sent)
            /\ Len(q.got) >= 1 => Len(q.got[1]) <= 2
            /\ Len(q.got) = 2 => Len(q.got[2]) <= 10
            /\ Len(q.sent) = 2 => (q.got # <<>> /\ q.got[1] = <<5, 0>>)
            /\ q.ok <=> /\ Len(q.got) = 2
                        /\ q.got[1] = <<5, 0>>
                        /\ Len(q.got[2]) >= 2
                        /\ q.got[2][2] = 0

\* a SOCKS5 candidate passed a check and then failed one in which the
\* greeting was answered with another method and no request was written
C20_Witness ==
    /\ proto = "socks5"
    /\ \E i \in Positions :
          /\ Done(i)
          /\ Len(probes[i]) >= 2
          /\ probes[i][1].ok
          /\ probes[i][1].sent = << <<5, 1, 0>>, <<5, 1, 0, 1, 104, 16, 0, 1, 0, 80>> >>
          /\ probes[i][Len(probes[i])].got = << <<5, 2>> >>
          /\ probes[i][Len(probes[i])].sent = << <<5, 1, 0>> >>
          /\ ~probes[i][Len(probes[i])].ok

\* ---- C21: what makes an HTTP/HTTPS check succeed ----

DigitChars == <<"0", "1", "2", "3", "4", "5", "6", "7", "8", "9">>

DigitValue(c) == CHOOSE n \in 0..9 : DigitChars[n + 1] = c

RECURSIVE OctetValue(_)
OctetValue(s) ==
    IF s = <<>> THEN 0
    ELSE 10 * OctetValue(SubSeq(s, 1, Len(s) - 1)) + DigitValue(s[Len(s)])

\* a dotted quad in the syntax of IPv4: four decimal fields of one to
\* three digits, each at most 255
ValidQuad(s) ==
    LET f == Split(s, ".")
    IN  /\ Len(f) = 4
        /\ \A k \in 1..4 : /\ Len(f[k]) \in 1..3
                           /\ \A j \in 1..Len(f[k]) : f[k][j] \in Digits
                           /\ OctetValue(f[k]) <= 255

HasValidIPv4(body) ==
    \E p \in 1..Len(body) : \E q \in p..Len(body) :
        ValidQuad(SubSeq(body, p, q))

HttpProbes ==
    IF proto \in {"http", "https"} THEN AllProbes ELSE {}

\* C21: an HTTP/HTTPS check succeeds if and only if the GET returned
\* status 200 and a syntactically valid IPv4 address can be extracted from
\* the body; a transport error or timeout, another status, or a body
\* without a valid address is a failure.
C21_HttpSuccessIffValidIp ==
    \A q \in HttpProbes :
        q.ok <=> /\ q.event.kind = "resp"
                 /\ q.event.status = 200
                 /\ HasValidIPv4(q.event.body)

\* ---- C22: the port prefilter ----

\* the finished calls of _port_open: the answer with what the connect did
PortCalls ==
    UNION {{[answer |-> portLog[i][k], conn |-> portConn[i][k].conn,
             took |-> portConn[i][k].took] : k \in 1..Len(portConn[i])} :
           i \in Positions}

\* the TCP connect completed within the prefilter timeout
ConnectCompleted(c) ==
    c.conn \in {"connected", "reset"} /\ c.took <= Sec(PORT_CHECK_TIMEOUT)

\* C22: the port prefilter reports open exactly when the TCP connect to the
\* candidate completed within the prefilter timeout and closed otherwise: two
\* calls whose connects had the same outcome got the same answer.
C22_PrefilterFollowsConnect ==
    \A c \in PortCalls :
        /\ c.answer \in {"open", "closed"}
        /\ c.answer = "open" <=> ConnectCompleted(c)

\* ---- C23: no retries ----

\* the prefilter was called at most once for the candidate at position i,
\* and its k-th endpoint check, if any, was that of the k-th endpoint
CalledOnce(i) ==
    /\ Len(portLog[i]) <= 1
    /\ Len(portConn[i]) <= 1
    /\ Len(probes[i]) <= Len(Endpoints(proto))
    /\ \A k \in 1..Len(probes[i]) : probes[i][k].endpoint = Endpoints(proto)[k]
    /\ \A k, l \in 1..Len(probes[i]) :
          probes[i][k].endpoint = probes[i][l].endpoint => k = l

\* nothing is done any more for the candidate at position i
Untouched(i) ==
    /\ task'[i] = task[i]
    /\ result'[i] = result[i]
    /\ portLog'[i] = portLog[i]
    /\ portConn'[i] = portConn[i]
    /\ probes'[i] = probes[i]

\* C23: within one run the port prefilter and each endpoint checker are
\* invoked at most once per occurrence of a candidate in the list, and once
\* an occurrence has been finalized dead no further step validates it.
C23_NoRetries ==
    /\ [](\A i \in Positions : CalledOnce(i))
    /\ [][\A i \in Positions :
             (Done(i) /\ ~result[i].alive) => Untouched(i)]_vars

\* the run is over; the same candidate occurred twice in the list, its first
\* occurrence died at the first endpoint and the second one at the prefilter
C23_Witness ==
    /\ pcMain = "done"
    /\ \E i, j \in Positions :
          /\ i < j
          /\ proxies[i] = Good /\ proxies[j] = Good
          /\ Done(i) /\ ~result[i].alive /\ Len(probes[i]) = 1
          /\ Done(j) /\ portLog[j] = <<"closed">>

\* ---- C24: record_check ----

\* the rows of proxy_checks and of proxy_stats for a proxy and its type
ChecksOf(p, pt) ==
    {k \in 1..Len(proxy_checks) :
        proxy_checks[k].proxy = p /\ proxy_checks[k].proxy_type = pt}

RecordedKeys ==
    {<<proxy_checks[k].proxy, proxy_checks[k].proxy_type>> :
        k \in 1..Len(proxy_checks)}

\* what a call record_check(p, pt, success, rt, site, err) has to leave
Recorded(p, pt, success, rt, err) ==
    /\ Len(proxy_checks') = Len(proxy_checks) + 1
    /\ SubSeq(proxy_checks', 1, Len(proxy_checks)) = proxy_checks
    /\ LET row == proxy_checks'[Len(proxy_checks')]
       IN  /\ row.proxy = p
           /\ row.proxy_type = pt
           /\ row.success = (IF success THEN 1 ELSE 0)
           /\ row.response_time = rt
           /\ row.error = err
    /\ Cardinality({k \in 1..Len(proxy_stats') :
                       StatsKey(proxy_stats'[k]) = <<p, pt>>}) = 1

EntriesOf(list, key) == {k \in 1..Len(list) : StatsKey(list[k]) = key}

\* get_proxy_stats()
GetProxyStatsDefault ==
    GetProxyStats(NULL, DEFAULT_MIN_CHECKS, 0, DEFAULT_LIMIT)

\* C25: after checks have been recorded for several distinct proxies,
\* get_proxy_stats() with its default arguments returns one entry for every
\* distinct recorded proxy, those with only two recorded checks included.
C25_DefaultStatsListAll ==
    [][GetProxyStatsDefault =>
          /\ \A key \in RecordedKeys :
                Cardinality(EntriesOf(stats_returned', key)) = 1
          /\ Len(stats_returned') = Cardinality(RecordedKeys)]_vars

\* ---- C26: the order of get_proxy_stats ----

\* row a has a strictly higher fraction of successful checks than row b
HigherRatio(a, b) ==
    a.success_count * (b.success_count + b.failure_count)
        > b.success_count * (a.success_count + a.failure_count)

\* C26: the stored reliability_score is strictly higher for the strictly
\* higher fraction of successful checks, so that get_proxy_stats, which
\* orders by it, returns a proxy with the higher fraction (3 of 3) before one
\* with a lower fraction (1 of 2) and that one before a proxy without a
\* success (0 of 2).
C26_OrderedBySuccessRatio ==
    /\ \A k, l \in 1..Len(proxy_stats) :
          HigherRatio(proxy_stats[k], proxy_stats[l])
             => proxy_stats[k].reliability_score
                   > proxy_stats[l].reliability_score
    /\ \A k, l \in 1..Len(stats_returned) :
          HigherRatio(stats_returned[k], stats_returned[l]) => k < l

\* ---- C27: cleanup ----

\* the row's timestamp is more than `days` days before now
MoreThanDaysOld(row, days) == now - row.timestamp > days * TicksPerDay

\* the row's calendar day (UTC) is before the local calendar day that was
\* `days` days ago
EarlierDate(row, days) ==
    row.timestamp \div TicksPerDay
        < (now + tz - days * TicksPerDay) \div TicksPerDay

\* cleanup(days) kept exactly the rows that are not Gone, in their order,
\* and returned how many it deleted
CleanedUp(Gone(_, _), days) ==
    /\ proxy_checks' = SelectSeq(proxy_checks, LAMBDA r : ~Gone(r, days))
    /\ deleted' = Len(proxy_checks) - Len(proxy_checks')

StepRank(t) ==
    IF t.pc \in {"new", "wait"} THEN 0
    ELSE IF t.pc = "port" THEN 1
    ELSE IF t.pc = "check" THEN 1 + t.idx
    ELSE 2 + Len(ConfiguredEndpoints)

\* the probes made so far are those of the first endpoints, in the
\* configured order, made after the prefilter answered open, each after
\* all the earlier ones had passed
InOrder(i) ==
    /\ probes[i] # <<>> => portLog[i] = <<"open">>
    /\ \A k \in 1..Len(probes[i]) :
          /\ k <= Len(ConfiguredEndpoints)
          /\ probes[i][k].endpoint = ConfiguredEndpoints[k]
          /\ \A j \in 1..(k - 1) : probes[i][j].ok
    /\ task[i].pc = "check" =>
          /\ portLog[i] = <<"open">>
          /\ Len(probes[i]) = task[i].idx - 1
          /\ \A j \in 1..Len(probes[i]) : probes[i][j].ok
    /\ task[i].pc \in {"new", "wait"} => portLog[i] = <<>> /\ probes[i] = <<>>
    /\ task[i].pc = "port" => portLog[i] = <<"pending">> /\ probes[i] = <<>>

\* one step of the run, seen from the candidate at position i
NextStep(i) ==
    /\ StepRank(task'[i]) >= StepRank(task[i])
    /\ task'[i].pc = "port" => task[i].pc \in {"wait", "port"}
    /\ (task'[i].pc = "check" /\ StepRank(task'[i]) # StepRank(task[i])) =>
          \/ task[i].pc = "port" /\ task'[i].idx = 1
          \/ /\ task[i].pc = "check" /\ task'[i].idx = task[i].idx + 1
             /\ Len(probes'[i]) = task[i].idx
             /\ probes'[i][task[i].idx].ok
    /\ Len(probes'[i]) > Len(probes[i]) =>
          /\ task[i].pc = "check"
          /\ Len(probes'[i]) = Len(probes[i]) + 1
    /\ Finished(i) => Untouched(i)

\* C28: per candidate the steps come only in the order NEW, PORT_CHECK,
\* CHECK(endpoint 1), CHECK(endpoint 2), ...: endpoint k is probed only after
\* the prefilter answered open and endpoints 1..k-1 all passed, in the order
\* of the configured list, and after ALIVE or DEAD no further step is taken
\* for the candidate.
C28_StepOrder ==
    /\ [](\A i \in Positions : InOrder(i))
    /\ [][\A i \in Positions : NextStep(i)]_vars

\* a SOCKS5 candidate whose first two endpoints passed is at its third
C28_Witness ==
    \E i \in Positions :
        /\ proto = "socks5"
        /\ task[i].pc = "check" /\ task[i].idx = 3
        /\ Len(probes[i]) = 2

\* ---- C29: batches ----

\* the number of the batch that position i belongs to, counted from 0
BatchNo(i) == (i - 1) \div BATCH_SIZE

\* the positions whose task has been created
Dispatched == {i \in Positions : task[i].pc # "new"}

\* the batches dispatched so far are the first ones of the list, whole, in
\* input order, each of at most BATCH_SIZE consecutive candidates; a later
\* batch is dispatched only when every candidate of the earlier ones has
\* been finalized
BatchesInOrder ==
    /\ batch_start % BATCH_SIZE = 0
    /\ Dispatched =
          IF pcMain = "start" THEN {}
          ELSE {i \in Positions : i <= batch_start + BATCH_SIZE}
    /\ \A i \in Positions \ Dispatched : ~Touched(i)
    /\ \A i, j \in Dispatched : BatchNo(i) < BatchNo(j) => Finished(i)
    /\ \A b \in 0..BatchNo(Total) :
          Cardinality({i \in Dispatched : BatchNo(i) = b}) <= BATCH_SIZE
    /\ pcMain = "done" => \A i \in Dispatched : Finished(i)

\* a task is created from a candidate that nothing was done for yet, and
\* a candidate whose task was created never gets another
DispatchedOnce(i) ==
    /\ (task'[i].pc = "wait" /\ task[i].pc # "wait") =>
          /\ task[i].pc = "new"
          /\ portLog[i] = <<>> /\ probes[i] = <<>>
          /\ \A j \in Positions :
                BatchNo(j) = BatchNo(i) => task'[j].pc = "wait"
    /\ task[i].pc # "new" => task'[i].pc \notin {"new"}
    /\ task[i].pc \notin {"new", "wait"} => task'[i].pc # "wait"

\* C29: candidates are processed in consecutive batches of at most
\* BATCH_SIZE taken in input order; no candidate of batch k + 1 starts
\* validation before every candidate of batch k has been finalized, and each
\* candidate of a dispatched batch is validated exactly once.
C29_Batches ==
    /\ []BatchesInOrder
    /\ [][\A i \in Positions : DispatchedOnce(i)]_vars

\* the second batch is in flight: its candidate is being validated while the
\* BATCH_SIZE candidates of the first batch have all been finalized
C29_Witness ==
    /\ pcMain = "gather"
    /\ batch_start = BATCH_SIZE
    /\ \E j \in Positions : BatchNo(j) = 1 /\ InFlight(j)
    /\ Cardinality({i \in Positions : BatchNo(i) = 0 /\ Finished(i)})
          = BATCH_SIZE

\* ---- C30: the outer deadline and a candidate that passes everything ----

RECURSIVE TookUs(_)
TookUs(log) == IF log = <<>> THEN 0 ELSE Head(log).took + TookUs(Tail(log))

\* the time the calls that returned took: the prefilter and the checks
ServedUs(i) == TookUs(portConn[i]) + TookUs(probes[i])

\* how long the call that a finished task ended in took or, for a call that
\* the deadline cancelled, would have taken
LastCallUs(i) == task[i].clock - ServedUs(i)

\* everything asked of the candidate's peer was answered with each single
\* I/O step inside its own timeout, the call the deadline may have cancelled
\* included: the connect of the prefilter within PORT_CHECK_TIMEOUT, the
\* connect and the read of every check within theirs, no step left silent
ServedInTime(i) ==
    /\ task[i].hung = ""
    /\ \A k \in 1..Len(portConn[i]) :
          portConn[i][k].took < Sec(PORT_CHECK_TIMEOUT)
    /\ \A k \in 1..Len(probes[i]) :
          probes[i][k].hung = "" /\ probes[i][k].took <= SlowCheckUs(proto)
    /\ LastCallUs(i) <= SlowCheckUs(proto)

\* C30: with prefilter timeout 2 s, per-check timeout 6 s and outer deadline
\* 4 x 6 s, a candidate whose prefilter answers open and whose endpoint
\* checks all pass, each single I/O step ending inside its own timeout, is
\* finalized alive: the outer deadline never makes it a dead "timeout".
C30_AllPassingIsAlive ==
    \A i \in Positions :
        (/\ Done(i)
         /\ portLog[i] = <<"open">>
         /\ \A k \in 1..Len(probes[i]) : probes[i][k].ok
         /\ ServedInTime(i))
            => /\ result[i].error # "timeout"
               /\ result[i].alive

\* ---- C31: when and in which order progress is notified ----

\* the positions of the batch that position i belongs to
BatchMates(i) == {j \in Positions : BatchNo(j) = BatchNo(i)}

\* the notifications made so far are about whole batches, whose candidates
\* have all been finalized, and while a batch is being gathered none of its
\* candidates has been notified, finished or not
NotifiedAfterBatch ==
    /\ \A k \in 1..Len(progress) :
          /\ k \in Positions
          /\ \A j \in BatchMates(k) : Finished(j) /\ j <= Len(progress)
    /\ pcMain = "gather" =>
          \A j \in BatchOf(batch_start) : j > Len(progress)

\* a step that notifies does so for the whole batch being gathered, every
\* candidate of which has been finalized, one call for each list position
\* in ascending order, after the calls made before
NotifiedInListOrder ==
    progress' # progress =>
        /\ pcMain = "gather"
        /\ \A j \in BatchOf(batch_start) : Finished(j)
        /\ Len(progress) = batch_start
        /\ Len(progress') = batch_start + Cardinality(BatchOf(batch_start))
        /\ SubSeq(progress', 1, Len(progress)) = progress
        /\ \A k \in (Len(progress) + 1)..Len(progress') :
              /\ progress'[k].checked = k
              /\ progress'[k].result = Reported(k)

\* C31: the progress notifications of a batch are made only after every
\* candidate of the batch has been finalized, and within the batch in the
\* order of the input list, whatever the order in which the validations
\* ended.
C31_ProgressAfterBatchInOrder ==
    /\ []NotifiedAfterBatch
    /\ [][NotifiedInListOrder]_vars

\* in the batch being gathered a later candidate has been finalized, with
\* a result that differs from a fresh one, while an earlier one is still
\* being validated, and no call has been made for the batch
C31_Witness ==
    /\ pcMain = "gather"
    /\ \E i, j \in BatchOf(batch_start) :
          /\ i < j
          /\ InFlight(i)
          /\ Done(j) /\ result[j].alive
    /\ Len(progress) = batch_start

\* ---- C32: the record a progress notification carries ----

AliveCalls == {k \in 1..Len(progress) : progress[k].result.alive}

\* C33: with a target T > 0 the list returned is not cut to T: it holds
\* every alive result of all the batches dispatched, so it may be longer
\* than T but is always shorter than T + BATCH_SIZE, and the progress calls
\* with an alive result are as many as the results returned.
C33_ReturnedNotTruncated ==
    (target > 0 /\ pcMain = "done") =>
        /\ Len(returned) = AliveAmong(checked)
        /\ \A i \in 1..checked :
              (Done(i) /\ result[i].alive) =>
                  \E k \in 1..Len(returned) : returned[k] = result[i]
        /\ Len(returned) < target + BATCH_SIZE
        /\ Cardinality(AliveCalls) = Len(returned)

\* a run with a target returned a whole batch of alive results, more than
\* the target, each of them notified
C33_Witness ==
    /\ target > 0
    /\ pcMain = "done"
    /\ Len(returned) = BATCH_SIZE
    /\ Len(returned) > target
    /\ Cardinality(AliveCalls) = Len(returned)

\* ---- C34: the cache does not return expired entries ----

\* the step taken is a call of get that returned an entry
GetHit == get_returned' # get_returned /\ get_returned'.data # None

\* at the time of the step an entry for key k was stored less than max_age
\* ago: it is in the persistent cache, which holds the time of each entry
\* stored by set or loaded from the file, and it is younger than max_age
StoredInTime(k) == k \in DOMAIN cache /\ Fresh(cache[k])

\* C34: get(k) is a miss for an entry stored max_age or longer ago: an
\* expired entry is never returned, whether it was stored by set() in this
\* process or loaded from the cache file, and after clean() no expired
\* entry can be reached through get().
C34_ExpiredNeverReturned ==
    [][GetHit => StoredInTime(get_returned'.key)]_vars

\* ---- C35: the counters and the uptime of a stats row ----

\* 100 x success_count / (success_count + failure_count), in the units of
\* uptime_percentage
UptimeOf(row) ==
    (100000 * row.success_count) \div (row.success_count + row.failure_count)

\* C35: after every record_check call, the first one for a (proxy,
\* proxy_type) included, the stats row of the pair has success_count +
\* failure_count = the number of checks recorded for the pair, and
\* uptime_percentage = 100 x success_count / (success_count +
\* failure_count).
C35_CountsAndUptime ==
    \A k \in 1..Len(proxy_stats) :
        LET row == proxy_stats[k]
        IN  /\ row.success_count + row.failure_count
                 = Cardinality(ChecksOf(row.proxy, row.proxy_type))
            /\ row.uptime_percentage = UptimeOf(row)

====
